---- MODULE Spec2Model ----
(***************************************************************************)
(* A model of the slot engine: the random source, the payline evaluator,   *)
(* the reel controller (winning / losing stop positions) and the engine's  *)
(* spin / stop / simulate state machine.                                   *)
(*                                                                         *)
(* JavaScript arrays are sequences read through At (0-based, out-of-range  *)
(* reads give UNDEF).  A draw u of the random source is the integer d with *)
(* u = d / DrawDen; a probability is an integer number of percent.         *)
(***************************************************************************)
EXTENDS Integers, Sequences, FiniteSets, TLC

VARIABLES
    config,       \* Configuration.config: the engine's current configuration
    gameState,    \* GameState: credits, lastWin, isSpinning, grid, counters
    rngs,         \* the RNG objects: the engine's and the reel controller's
    parts,        \* what initialize() built: reels, evaluator, controller, animator
    inflight,     \* executeSpin activations suspended in `await animate(...)`
    reelsStopped, \* ReelAnimator: number of reels in state 'stopped' (0..5)
    emitted,      \* events emitted by the last call, in order
    lastCall,     \* the last call made on the engine and how it returned
    twin,         \* a second engine, same configuration and seed, driven by simulate()
    probe         \* inputs and result of one call of a pure core operation

vars == <<config, gameState, rngs, parts, inflight, reelsStopped, emitted,
          lastCall, twin, probe>>

-----------------------------------------------------------------------------
(* Bounds of the model *)

DrawDen == 4        \* draws are the multiples of 1/DrawDen in [0, 1)
MaxPeriod == 2      \* a draw stream repeats after MaxPeriod draws
MaxSpins == 3       \* spins started per engine
MaxSimSpins == 2    \* largest spinCount given to simulate()
MaxOpsSpins == 2    \* spins recorded before the last spin() or simulate() call
MaxDraws == 3       \* next() calls made on one SeededRandom object

-----------------------------------------------------------------------------
(* JavaScript values *)

UNDEF == "undefined"
WILD == "*"
SEVEN == "SEVEN"
BAR == "BAR"
CHERRY == "CHERRY"

At(arr, i) == IF i \in 0..(Len(arr) - 1) THEN arr[i + 1] ELSE UNDEF

Min(S) == CHOOSE x \in S : \A y \in S : x <= y

RECURSIVE SumSeq(_)
SumSeq(s) == IF s = <<>> THEN 0 ELSE Head(s) + SumSeq(Tail(s))

RECURSIVE Product(_)
Product(s) == IF s = <<>> THEN 1 ELSE Head(s) * Product(Tail(s))


-----------------------------------------------------------------------------
(* RNG.ts: the random source.                                              *)
(* A stream is the sequence of values one RandomSource returns; for a      *)
(* SeededRandom it is fixed by the seed.  The model takes the streams that *)
(* repeat after MaxPeriod draws, one stream per seed, and runs the engine  *)
(* with a configured seed.                                                 *)

Pow(b, e) == Product([i \in 1..e |-> b])
Seeds == 0..(Pow(DrawDen, MaxPeriod) - 1)

StreamOf(seed) == [i \in 1..MaxPeriod |-> (seed \div Pow(DrawDen, i - 1)) % DrawDen]

\* createRNG(seed) with a seed: new SeededRandom(seed), no call made yet
createRNG(seed) == [seed |-> seed, calls |-> 0]

\* the value the (k+1)-th next() returns, k = 0 for the very next call
NextValue(rng, k) == StreamOf(rng.seed)[((rng.calls + k) % MaxPeriod) + 1]

\* the object after n calls of next()
Advance(rng, n) == [rng EXCEPT !.calls = (@ + n) % MaxPeriod]

\* Math.floor(u * n) for the draw u = d / DrawDen
FloorScale(d, n) == (d * n) \div DrawDen

\* u < winningChance, winningChance given in percent
BernoulliWin(d, winningChance) == d * 100 < winningChance * DrawDen

-----------------------------------------------------------------------------
(* PaylineEvaluator.ts                                                     *)
(* A paylines value is [form, lines].  form = "flat": each line is the flat *)
(* array [row, col, row, col, ...] the evaluator reads.  form = "pairs":   *)
(* each line is an array of [row, col] pairs (the documented format); its  *)
(* pairs are stored flattened in lines, and its JavaScript length is the   *)
(* number of pairs.                                                        *)
(* A payout table is the sequence of its entries in Object.entries order.  *)

PatternLength(pattern) == Len(pattern)      \* pattern.split('-').length

\* matchesPattern without the length test of lines 89-91
matchesPatternAnyLength(symbolIds, pattern) ==
    \A i \in 1..Len(pattern) : ~(pattern[i] # WILD /\ pattern[i] # At(symbolIds, i - 1))

\* matchesPattern(symbolIds, pattern)
matchesPattern(symbolIds, pattern) ==
    /\ PatternLength(pattern) = Len(symbolIds)
    /\ \A i \in 1..Len(pattern) : ~(pattern[i] # WILD /\ pattern[i] # symbolIds[i])

\* checkPayline: the first entry of the table, in entry order, that matches;
\* 0 when none does (null)
RECURSIVE FirstMatch(_, _, _)
FirstMatch(symbolIds, payoutTable, e) ==
    IF e > Len(payoutTable) THEN 0
    ELSE IF matchesPattern(symbolIds, payoutTable[e].pattern) THEN e
    ELSE FirstMatch(symbolIds, payoutTable, e + 1)

checkPayline(paylineIndex, symbolIds, payoutTable) ==
    LET e == FirstMatch(symbolIds, payoutTable, 1) IN
    IF e = 0 THEN <<>>
    ELSE << [paylineIndex |-> paylineIndex,
             pattern |-> payoutTable[e].pattern,
             multiplier |-> payoutTable[e].multiplier] >>

\* the loop `for (j = 0; j < payline.length; j += 2)`: one cell per iteration
CellCount(line) == (Len(line) + 1) \div 2

\* matrix[row] is undefined, so matrix[row][col] throws a TypeError: the row is
\* an array (form "pairs") or is no index of the matrix
CellThrows(matrix, form, line, k) ==
    \/ form = "pairs"
    \/ At(line, 2 * (k - 1)) \notin 0..(Len(matrix) - 1)

\* the symbols along one payline, in the order of its cells
SymbolsAlong(matrix, line) ==
    [k \in 1..CellCount(line) |->
        At(At(matrix, At(line, 2 * (k - 1))), At(line, 2 * (k - 1) + 1))]

LineCount(paylines) == Len(paylines.lines)      \* this.paylines.length

\* form "pairs": the JavaScript array has one element per pair
JsLength(paylines, i) ==
    IF paylines.form = "pairs"
    THEN Len(paylines.lines[i]) \div 2
    ELSE Len(paylines.lines[i])

EvaluateThrows(matrix, paylines) ==
    \E i \in 1..LineCount(paylines) :
        \E k \in 1..((JsLength(paylines, i) + 1) \div 2) :
            CellThrows(matrix, paylines.form, paylines.lines[i], k)

RECURSIVE CollectHitLines(_, _, _, _)
CollectHitLines(matrix, paylines, payoutTable, i) ==
    IF i > LineCount(paylines) THEN <<>>
    ELSE checkPayline(i - 1, SymbolsAlong(matrix, paylines.lines[i]), payoutTable)
             \o CollectHitLines(matrix, paylines, payoutTable, i + 1)

SumMultipliers(hitLines) == SumSeq([h \in 1..Len(hitLines) |-> hitLines[h].multiplier])

\* evaluate(matrix) of the evaluator ev = [paylines, payoutTable]
evaluate(ev, matrix) ==
    IF EvaluateThrows(matrix, ev.paylines)
    THEN [threw |-> TRUE, matrix |-> matrix, win |-> FALSE, payout |-> 0,
          hitLines |-> <<>>]
    ELSE LET hitLines == CollectHitLines(matrix, ev.paylines, ev.payoutTable, 1) IN
         [threw |-> FALSE, matrix |-> matrix, win |-> Len(hitLines) > 0,
          payout |-> SumMultipliers(hitLines), hitLines |-> hitLines]

-----------------------------------------------------------------------------
(* ReelController.ts                                                       *)
(* ctl = [reels, evaluator, payoutTable]; reels is the sequence of the 5   *)
(* strips; rng is the controller's RNG object.  Each operation returns the *)
(* positions, the number of draws it made and whether it threw.            *)

\* ReelController.positionsToMatrix: matrix[row][reel] = strip[(position + row) % length]
positionsToMatrix(reels, positions) ==
    [row \in 1..3 |->
        [reel \in 1..5 |->
            At(reels[reel], (positions[reel] + (row - 1)) % Len(reels[reel]))]]

\* selectWeightedPattern: weights 1000 / payout, random = u * totalWeight, walk
\* `random -= weights[i]; if (random <= 0) return patterns[i]`.  With
\* M = the product of the multipliers, 1000 * M / payout is an integer and
\* random <= 0 after entry i is  d * total <= DrawDen * (w_1 + ... + w_i).
\* a weight growing with the payout instead
DirectWeight(payoutTable, i) == 1000 * payoutTable[i].multiplier

ScaledWeight(payoutTable, i) ==
    (1000 * Product([j \in 1..Len(payoutTable) |-> payoutTable[j].multiplier]))
        \div payoutTable[i].multiplier

CumulativeWeight(payoutTable, i) ==
    SumSeq([j \in 1..i |-> ScaledWeight(payoutTable, j)])

\* the walk for the draw u = d / den
selectWeightedPatternAt(payoutTable, d, den) ==
    LET total == CumulativeWeight(payoutTable, Len(payoutTable))
        reached == {i \in 1..Len(payoutTable) :
                       d * total <= den * CumulativeWeight(payoutTable, i)}
    IN IF reached # {} THEN Min(reached) ELSE Len(payoutTable)

selectWeightedPattern(payoutTable, d) ==
    selectWeightedPatternAt(payoutTable, d, DrawDen)

\* the indices of the strip at which the symbol stands, ascending
RECURSIVE SymbolIndices(_, _, _)
SymbolIndices(strip, symbol, i) ==
    IF i >= Len(strip) THEN <<>>
    ELSE (IF At(strip, i) = symbol THEN <<i>> ELSE <<>>)
             \o SymbolIndices(strip, symbol, i + 1)

\* createWinningMatrix draws for a reel unless its token is a symbol that the
\* strip does not hold (then position 0, no draw)
ReelDraws(reels, pattern, reel) ==
    IF At(pattern, reel - 1) = WILD THEN 1
    ELSE IF SymbolIndices(reels[reel], At(pattern, reel - 1), 0) # <<>> THEN 1
    ELSE 0

DrawsBefore(reels, pattern, reel) ==
    SumSeq([r \in 1..(reel - 1) |-> ReelDraws(reels, pattern, r)])

\* createWinningMatrix(pattern), its first draw being the one `first` calls ahead
createWinningMatrix(reels, pattern, rng, first) ==
    [reel \in 1..5 |->
        LET requiredSymbol == At(pattern, reel - 1)
            d == NextValue(rng, first + DrawsBefore(reels, pattern, reel))
            symbolIndices == SymbolIndices(reels[reel], requiredSymbol, 0)
        IN IF requiredSymbol # WILD
           THEN IF Len(symbolIndices) > 0
                THEN At(symbolIndices, FloorScale(d, Len(symbolIndices)))
                ELSE 0
           ELSE FloorScale(d, Len(reels[reel]))]

generateWinningPositions(ctl, rng) ==
    LET e == selectWeightedPattern(ctl.payoutTable, NextValue(rng, 0))
        pattern == ctl.payoutTable[e].pattern
    IN [threw |-> FALSE,
        positions |-> createWinningMatrix(ctl.reels, pattern, rng, 1),
        draws |-> 1 + DrawsBefore(ctl.reels, pattern, 6)]

\* the fallback stopping every reel one past the end of its strip
forceLosingPositionsPastEnd(reels) == [reel \in 1..5 |-> Len(reels[reel])]

\* forceLosingPositions: for each reel the first i whose middle symbol is not
\* the target (reel 0 takes i = 0 at once), 0 when the loop finds none
forceLosingPositions(reels) ==
    [reel \in 1..5 |->
        LET strip == reels[reel]
            targetSymbol == IF reel - 1 = 0 THEN At(strip, 0) ELSE "!DIFFERENT!"
            kept == {i \in 0..(Len(strip) - 1) :
                        ~(reel - 1 > 0 /\ At(strip, (i + 1) % Len(strip)) = targetSymbol)}
        IN IF kept # {} THEN Min(kept) ELSE 0]

maxAttempts == 100

\* the positions drawn by attempt number `attempts` (0-based): 5 draws, reel order
AttemptPositions(reels, rng, attempts) ==
    [reel \in 1..5 |->
        FloorScale(NextValue(rng, 5 * attempts + (reel - 1)), Len(reels[reel]))]

\* The stream repeats after MaxPeriod draws, so attempt a + MaxPeriod draws what
\* attempt a drew: once MaxPeriod attempts in a row have won, every later one
\* wins too, and the loop runs on to attempts = maxAttempts.
NextAttempt(attempts) ==
    IF attempts + 1 >= MaxPeriod THEN maxAttempts ELSE attempts + 1

RECURSIVE LosingLoop(_, _, _)
LosingLoop(ctl, rng, attempts) ==
    IF attempts < maxAttempts
    THEN LET positions == AttemptPositions(ctl.reels, rng, attempts)
             result == evaluate(ctl.evaluator, positionsToMatrix(ctl.reels, positions))
         IN IF result.threw
            THEN [threw |-> TRUE, positions |-> positions, draws |-> 5 * (attempts + 1)]
            ELSE IF ~result.win
            THEN [threw |-> FALSE, positions |-> positions, draws |-> 5 * (attempts + 1)]
            ELSE LosingLoop(ctl, rng, NextAttempt(attempts))
    ELSE [threw |-> FALSE, positions |-> forceLosingPositions(ctl.reels),
          draws |-> 5 * maxAttempts]

generateLosingPositions(ctl, rng) == LosingLoop(ctl, rng, 0)


-----------------------------------------------------------------------------
(* Configurations the model runs *)

Flat(positions) ==
    [k \in 1..(2 * Len(positions)) |-> positions[(k + 1) \div 2][2 - (k % 2)]]

MiddlePositions == << <<1, 0>>, <<1, 1>>, <<1, 2>>, <<1, 3>>, <<1, 4>> >>

\* types.ts DEFAULT_PAYLINES, the positions of the 5 standard lines
DEFAULT_PAYLINES ==
    << MiddlePositions,
       << <<0, 0>>, <<0, 1>>, <<0, 2>>, <<0, 3>>, <<0, 4>> >>,
       << <<2, 0>>, <<2, 1>>, <<2, 2>>, <<2, 3>>, <<2, 4>> >>,
       << <<0, 0>>, <<1, 1>>, <<2, 2>>, <<1, 3>>, <<0, 4>> >>,
       << <<2, 0>>, <<1, 1>>, <<0, 2>>, <<1, 3>>, <<2, 4>> >> >>

\* Configuration.mergeWithDefaults: the default paylines, each flattened
defaultPaylines ==
    [form |-> "flat",
     lines |-> [i \in 1..Len(DEFAULT_PAYLINES) |-> Flat(DEFAULT_PAYLINES[i])]]

\* a user's paylines: the middle line alone, as the flat array the evaluator reads
MiddleFlat == [form |-> "flat", lines |-> << Flat(MiddlePositions) >>]

\* a user's paylines in the documented form, [[[1,0],[1,1],[1,2],[1,3],[1,4]]]
MiddlePairs == [form |-> "pairs", lines |-> << Flat(MiddlePositions) >>]

\* the same line given as the paylines value itself, [[1,0],[1,1],[1,2],[1,3],[1,4]]:
\* read as number[][] it is 5 paylines of one cell each
MiddleAsLines == [form |-> "flat", lines |-> MiddlePositions]

Entry(pattern, multiplier) == [pattern |-> pattern, multiplier |-> multiplier]

TableSeven == << Entry(<<SEVEN, SEVEN, SEVEN, SEVEN, SEVEN>>, 1000) >>

\* entries of types.ts DEFAULT_PAYOUT_TABLE, in its order
TableCherry ==
    << Entry(<<CHERRY, CHERRY, CHERRY, WILD, WILD>>, 5),
       Entry(<<CHERRY, CHERRY, WILD, WILD, WILD>>, 2) >>

TableMixed ==
    << Entry(<<SEVEN, SEVEN, SEVEN, SEVEN, SEVEN>>, 1000),
       Entry(<<BAR, BAR, BAR, WILD, WILD>>, 50),
       Entry(<<CHERRY, CHERRY, WILD, WILD, WILD>>, 2) >>

\* a table with an entry of 3 tokens: it matches no line of 5 cells
TableShort ==
    << Entry(<<CHERRY, CHERRY, CHERRY>>, 7),
       Entry(<<SEVEN, SEVEN, WILD, WILD, WILD>>, 3) >>

StripsFull == [reel \in 1..5 |-> <<SEVEN, BAR, CHERRY>>]
StripsNoSeven ==
    [reel \in 1..5 |-> IF reel = 5 THEN <<BAR, CHERRY>> ELSE <<SEVEN, BAR, CHERRY>>]
StripsCherryBar == [reel \in 1..5 |-> <<CHERRY, BAR>>]
StripsSevenCherry == [reel \in 1..5 |-> <<SEVEN, SEVEN, CHERRY>>]
StripsCherryOnly == [reel \in 1..5 |-> <<CHERRY>>]

PaylineChoices == {defaultPaylines, MiddleFlat, MiddlePairs, MiddleAsLines}
TableChoices == {TableSeven, TableCherry, TableMixed, TableShort}
StripChoices ==
    {StripsFull, StripsNoSeven, StripsCherryBar, StripsSevenCherry, StripsCherryOnly}

\* rows of a grid, and the 3x5 grids made of them
ProbeRows ==
    { <<SEVEN, SEVEN, SEVEN, SEVEN, SEVEN>>,
      <<CHERRY, CHERRY, CHERRY, SEVEN, BAR>>,
      <<CHERRY, CHERRY, BAR, SEVEN, SEVEN>>,
      <<SEVEN, SEVEN, CHERRY, CHERRY, BAR>> }
ProbeGrids == [1..3 -> ProbeRows]

\* every state a seeded RandomSource can be in: a stream read from its k-th
\* value on is the stream of another seed read from its start
RngStates == {createRNG(s) : s \in Seeds}

-----------------------------------------------------------------------------
(* The core operations called on their own: one call per behaviour, on     *)
(* inputs drawn from the sets above.                                       *)

Evaluator(paylines, payoutTable) == [paylines |-> paylines, payoutTable |-> payoutTable]

\* new ReelController(rng, reels, paylineEvaluator, payoutTable)
Controller(reels, evaluator, payoutTable) ==
    [reels |-> reels, evaluator |-> evaluator, payoutTable |-> payoutTable]

NoMatrix == <<>>
NoResult == [threw |-> FALSE, matrix |-> NoMatrix, win |-> FALSE, payout |-> 0,
             hitLines |-> <<>>]
NoPositions == [threw |-> FALSE, positions |-> <<>>, draws |-> 0]
NoController == Controller(<<>>, Evaluator(MiddleFlat, <<>>), <<>>)

ProbeIdle ==
    [op |-> "idle", ctl |-> NoController, rng |-> createRNG(0),
     matrix |-> NoMatrix, result |-> NoResult, generated |-> NoPositions]

\* evaluate(matrix) of a new PaylineEvaluator(paylines, payoutTable)
ProbeEvaluateOn(paylineSet, tableSet) ==
    /\ probe.op = "idle"
    /\ \E paylines \in paylineSet, payoutTable \in tableSet, matrix \in ProbeGrids :
          LET ev == Evaluator(paylines, payoutTable) IN
          probe' = [ProbeIdle EXCEPT !.op = "evaluate",
                                     !.ctl = Controller(<<>>, ev, payoutTable),
                                     !.matrix = matrix,
                                     !.result = evaluate(ev, matrix)]
    /\ UNCHANGED <<config, gameState, rngs, parts, inflight, reelsStopped, emitted,
                   lastCall, twin>>

ProbeEvaluate == ProbeEvaluateOn(PaylineChoices, TableChoices)

\* the grid of generated positions and its evaluation, as spin() computes them
GeneratedResult(ctl, generated) ==
    IF generated.threw THEN NoResult
    ELSE evaluate(ctl.evaluator, positionsToMatrix(ctl.reels, generated.positions))

ProbeGenerate(op) ==
    /\ probe.op = "idle"
    /\ \E paylines \in PaylineChoices, payoutTable \in TableChoices,
          reels \in StripChoices, rng \in RngStates :
          LET ctl == Controller(reels, Evaluator(paylines, payoutTable), payoutTable)
              generated == IF op = "winning"
                           THEN generateWinningPositions(ctl, rng)
                           ELSE generateLosingPositions(ctl, rng)
          IN probe' = [ProbeIdle EXCEPT !.op = op, !.ctl = ctl, !.rng = rng,
                                        !.generated = generated,
                                        !.result = GeneratedResult(ctl, generated)]
    /\ UNCHANGED <<config, gameState, rngs, parts, inflight, reelsStopped, emitted,
                   lastCall, twin>>

ProbeWinning == ProbeGenerate("winning")
ProbeLosing == ProbeGenerate("losing")


-----------------------------------------------------------------------------
(* GameState (models/SimulationResult.ts, class GameState)                 *)

EmptyGrid == [row \in 1..3 |-> [col \in 1..5 |-> ""]]       \* createEmptyGrid

NewGameState(initialCredits) ==
    [credits |-> initialCredits, lastWin |-> 0, isSpinning |-> FALSE,
     visibleGrid |-> EmptyGrid, lastSpinResult |-> NoResult,
     totalSpins |-> 0, totalWins |-> 0, totalPaidOut |-> 0]

\* a bet taken twice
placeBetTwice(gs, amount) == [gs EXCEPT !.credits = @ - 2 * amount]

placeBet(gs, amount) == [gs EXCEPT !.credits = @ - amount]

\* addWinnings without the totalWins++ of line 134
addWinningsUncounted(gs, amount) ==
    [gs EXCEPT !.credits = @ + amount, !.lastWin = amount,
               !.totalPaidOut = @ + amount]

addWinnings(gs, amount) ==
    [gs EXCEPT !.credits = @ + amount, !.lastWin = amount,
               !.totalWins = @ + 1, !.totalPaidOut = @ + amount]

recordSpin(gs) == [gs EXCEPT !.totalSpins = @ + 1]

\* hasCredits answering true whatever the balance
hasCreditsAlways(gs, amount) == gs.credits >= 0

hasCredits(gs, amount) == gs.credits >= amount

updateGrid(gs, matrix) == [gs EXCEPT !.visibleGrid = matrix]

-----------------------------------------------------------------------------
(* SlotEngine: the RNG objects.  rngs.engine is this.rng, rngs.controller  *)
(* is the object the ReelController was built with; aliased says they are  *)
(* one object, so a call on either advances both.                          *)

NewRngs(seed) ==
    [engine |-> createRNG(seed), controller |-> createRNG(seed), aliased |-> TRUE]

AdvanceEngine(r, n) ==
    [r EXCEPT !.engine = Advance(@, n),
              !.controller = IF r.aliased THEN Advance(@, n) ELSE @]

AdvanceController(r, n) ==
    [r EXCEPT !.controller = Advance(@, n),
              !.engine = IF r.aliased THEN Advance(@, n) ELSE @]

-----------------------------------------------------------------------------
(* SlotEngine: events.  One record shape for all event types; the fields a *)
(* type does not carry are 0 or "".                                        *)

Event(type, oldBalance, newBalance, change, reason, reelIndex) ==
    [type |-> type, oldBalance |-> oldBalance, newBalance |-> newBalance,
     change |-> change, reason |-> reason, reelIndex |-> reelIndex]

\* spin-start carrying the balance before the bet was taken
SpinStartEventBefore(credits, betAmount) ==
    Event("spin-start", 0, credits + betAmount, betAmount, "", 0)

SpinStartEvent(credits, betAmount) == Event("spin-start", 0, credits, betAmount, "", 0)
CreditsChangedEvent(oldBalance, newBalance, change, reason) ==
    Event("credits-changed", oldBalance, newBalance, change, reason, 0)
ReelStopEvent(reelIndex) == Event("reel-stop", 0, 0, 0, "", reelIndex)
WinEvent(payout, newBalance) == Event("win", 0, newBalance, payout, "", 0)
SpinCompleteEvent == Event("spin-complete", 0, 0, 0, "", 0)

-----------------------------------------------------------------------------
(* SlotEngine.spin / executeSpin.  An activation is one call of executeSpin *)
(* suspended at `await this.animator.animate(targetPositions, ...)`.       *)

Activation(id, betAmount, shouldWin, targetPositions) ==
    [id |-> id, betAmount |-> betAmount, shouldWin |-> shouldWin,
     targetPositions |-> targetPositions]

NoActivation == Activation(0, 0, FALSE, <<>>)

Return(outcome, gs, r, events, activation, result) ==
    [outcome |-> outcome, gameState |-> gs, rngs |-> r, emitted |-> events,
     activation |-> activation, result |-> result]

\* the catch block without `this.gameState.isSpinning = false`
SpinCatchKeepsFlag(gs, r, events, activation) ==
    Return("TypeError", gs, r, events, activation, NoResult)

\* a catch block that gives the bet back and forgets the spin
SpinCatchRollingBack(gs, r, events, activation) ==
    Return("TypeError",
           [gs EXCEPT !.isSpinning = FALSE, !.credits = @ + activation.betAmount,
                      !.totalSpins = @ - 1],
           r, events, activation, NoResult)

\* the catch block of spin(): isSpinning = false, the error is rethrown
SpinCatch(gs, r, events, activation) ==
    Return("TypeError", [gs EXCEPT !.isSpinning = FALSE], r, events, activation, NoResult)

\* the rest of executeSpin calling this.rng.next() once more after the animation
executeSpinPayRedrawing(gs, r, events, activation, matrix, result) ==
    Return(IF result.threw THEN "TypeError" ELSE "resolved",
           [updateGrid(gs, matrix) EXCEPT !.lastSpinResult = result,
                                          !.isSpinning = FALSE],
           AdvanceEngine(r, 1), events \o <<SpinCompleteEvent>>, activation, result)

\* executeSpin from the evaluated result on: show, pay, spin-complete,
\* isSpinning = false
executeSpinPay(gs, r, events, activation, matrix, result) ==
    LET shown == [updateGrid(gs, matrix) EXCEPT !.lastSpinResult = result]
        totalPayout == result.payout * activation.betAmount
        paid == IF result.win THEN addWinnings(shown, totalPayout) ELSE shown
        winEvents == IF result.win
                     THEN << WinEvent(totalPayout, paid.credits),
                             CreditsChangedEvent(shown.credits, paid.credits,
                                                 totalPayout, "win") >>
                     ELSE <<>>
    IN IF result.threw
       THEN SpinCatch(gs, r, events, activation)
       ELSE Return("resolved", [paid EXCEPT !.isSpinning = FALSE], r,
                   events \o winEvents \o <<SpinCompleteEvent>>, activation, result)

\* executeSpin after the animation: matrix, result, and the rest
executeSpinFinish(pt, gs, r, events, activation) ==
    LET matrix == positionsToMatrix(pt.ctl.reels, activation.targetPositions)
        result == evaluate(pt.ctl.evaluator, matrix)
    IN executeSpinPay(gs, r, events, activation, matrix, result)

\* executeSpin up to the animation: bet, spin-start, the Bernoulli trial, the
\* target positions; without an animator it runs on to the end
executeSpin(cfg, pt, gs, r, betAmount) ==
    LET bet == recordSpin(placeBet(gs, betAmount))
        events == << SpinStartEvent(bet.credits, betAmount),
                     CreditsChangedEvent(gs.credits, bet.credits, -betAmount, "bet") >>
        shouldWin == BernoulliWin(NextValue(r.engine, 0), cfg.winningChance)
        r1 == AdvanceEngine(r, 1)
        generated == IF shouldWin
                     THEN generateWinningPositions(pt.ctl, r1.controller)
                     ELSE generateLosingPositions(pt.ctl, r1.controller)
        r2 == AdvanceController(r1, generated.draws)
        activation == Activation(bet.totalSpins, betAmount, shouldWin,
                                 generated.positions)
    IN IF ~pt.initialized           \* this.reelController is undefined
       THEN SpinCatch(bet, r1, events, Activation(bet.totalSpins, betAmount, shouldWin, <<>>))
       ELSE IF generated.threw
       THEN SpinCatch(bet, r2, events, activation)
       ELSE IF pt.animator
       THEN Return("pending", bet, r2, events, activation, NoResult)
       ELSE executeSpinFinish(pt, bet, r2, events, activation)

\* spin(): the two checks, isSpinning = true, executeSpin
spin(cfg, pt, gs, r) ==
    IF gs.isSpinning
    THEN Return("StateError", gs, r, <<>>, NoActivation, NoResult)
    ELSE IF ~hasCredits(gs, cfg.betAmount)
    THEN Return("InsufficientCredits", gs, r, <<>>, NoActivation, NoResult)
    ELSE executeSpin(cfg, pt, [gs EXCEPT !.isSpinning = TRUE], r, cfg.betAmount)


-----------------------------------------------------------------------------
(* SlotEngine.simulate                                                     *)

\* SlotEngine.positionsToMatrix: one array per reel, [previous, at position, next]
enginePositionsToMatrix(reels, positions) ==
    [reel \in 1..5 |->
        LET strip == reels[reel]
            pos == positions[reel]
        IN << At(strip, (pos - 1 + Len(strip)) % Len(strip)),
              At(strip, pos),
              At(strip, (pos + 1) % Len(strip)) >>]

\* Reel.getVisibleSymbols at a whole currentOffset (the animator leaves a
\* stopped reel at its target position)
getVisibleSymbols(strip, currentOffset) ==
    [k \in 1..3 |->
        At(strip, ((currentOffset % Len(strip)) + (k - 1) + Len(strip)) % Len(strip))]

SimulationOptions(silent, preserveCredits) ==
    [silent |-> silent, preserveCredits |-> preserveCredits]

SimStart(gs, r) ==
    [gameState |-> gs, rngs |-> r, totalWins |-> 0, totalPaidOut |-> 0,
     largestWin |-> 0, emitted |-> <<>>, executed |-> 0, threw |-> FALSE,
     trials |-> 0]

\* the winnings of one iteration: simulate passes result.payout to addWinnings
SimWinnings(result, betAmount) == result.payout

\* a winning evaluation that pays whatever preserveCredits says
SimCountWinPaying(st, gs, r, result, options, betAmount) ==
    [st EXCEPT !.gameState = addWinnings(gs, SimWinnings(result, betAmount)),
               !.rngs = r, !.totalWins = @ + 1,
               !.totalPaidOut = @ + SimWinnings(result, betAmount),
               !.executed = @ + 1]

\* one winning evaluation inside the loop
SimCountWin(st, gs, r, result, options, betAmount) ==
    LET payout == SimWinnings(result, betAmount)
        paid == IF ~options.preserveCredits THEN addWinnings(gs, payout) ELSE gs
    IN [st EXCEPT !.gameState = paid, !.rngs = r,
                  !.totalWins = @ + 1, !.totalPaidOut = @ + payout,
                  !.largestWin = IF payout > @ THEN payout ELSE @,
                  !.emitted = IF ~options.silent /\ Len(result.hitLines) > 0
                              THEN Append(@, WinEvent(payout, paid.credits)) ELSE @,
                  !.executed = @ + 1]

\* a losing iteration: generateLosingPositions(), its result unused
SimLose(st, gs, r1, generated) ==
    [st EXCEPT !.gameState = gs,
               !.rngs = AdvanceController(r1, generated.draws),
               !.threw = generated.threw,
               !.executed = IF generated.threw THEN @ ELSE @ + 1]

\* a winning iteration from `const result = evaluate(matrix)` on
SimEvaluated(options, betAmount, st, gs, r2, result) ==
    IF result.threw THEN [st EXCEPT !.gameState = gs, !.rngs = r2, !.threw = TRUE]
    ELSE IF result.win THEN SimCountWin(st, gs, r2, result, options, betAmount)
    ELSE [st EXCEPT !.gameState = gs, !.rngs = r2, !.executed = @ + 1]

\* a winning iteration: positions, this.positionsToMatrix, evaluate
SimWin(pt, options, betAmount, st, gs, r1, generated) ==
    SimEvaluated(options, betAmount, st, gs,
                 AdvanceController(r1, generated.draws),
                 evaluate(pt.ctl.evaluator,
                          enginePositionsToMatrix(pt.ctl.reels, generated.positions)))

\* one iteration after the bet and the Bernoulli draw; this.reelController is
\* undefined before initialize().  trials counts the iterations whose draw
\* was below winningChance (shouldWin).
SimOutcome(pt, options, betAmount, st, gs, shouldWin, r1) ==
    IF ~pt.initialized
    THEN [st EXCEPT !.gameState = gs, !.rngs = r1, !.threw = TRUE,
                    !.trials = IF shouldWin THEN @ + 1 ELSE @]
    ELSE IF shouldWin
    THEN SimWin(pt, options, betAmount, [st EXCEPT !.trials = @ + 1], gs, r1,
                generateWinningPositions(pt.ctl, r1.controller))
    ELSE SimLose(st, gs, r1, generateLosingPositions(pt.ctl, r1.controller))

\* the loop body taking the bet whatever preserveCredits says
SimIterationBetting(cfg, pt, options, betAmount, st) ==
    SimOutcome(pt, options, betAmount, st,
               recordSpin(placeBet(st.gameState, betAmount)),
               BernoulliWin(NextValue(st.rngs.engine, 0), cfg.winningChance),
               AdvanceEngine(st.rngs, 1))

\* one iteration of the loop body: bet, recordSpin, the Bernoulli draw
SimIteration(cfg, pt, options, betAmount, st) ==
    SimOutcome(pt, options, betAmount, st,
               recordSpin(IF ~options.preserveCredits
                          THEN placeBet(st.gameState, betAmount) ELSE st.gameState),
               BernoulliWin(NextValue(st.rngs.engine, 0), cfg.winningChance),
               AdvanceEngine(st.rngs, 1))

\* one pass of the loop: nothing once an exception or the `break` has left it
SimPass(cfg, pt, options, betAmount, st) ==
    IF st.threw THEN st
    ELSE IF ~options.preserveCredits /\ ~hasCredits(st.gameState, betAmount) THEN st
    ELSE SimIteration(cfg, pt, options, betAmount, st)

\* the loop `for (let i = 0; i < spinCount; i++)`, passes i .. spinCount - 1,
\* computed half by half
RECURSIVE SimLoop(_, _, _, _, _, _, _)
SimLoop(cfg, pt, options, betAmount, st, i, spinCount) ==
    IF st.threw \/ i >= spinCount THEN st
    ELSE IF spinCount - i = 1 THEN SimPass(cfg, pt, options, betAmount, st)
    ELSE SimLoop(cfg, pt, options, betAmount,
                 SimLoop(cfg, pt, options, betAmount, st, i, (i + spinCount) \div 2),
                 (i + spinCount) \div 2, spinCount)

\* simulate(spinCount, options): the loop, then the statistics and the restore;
\* an exception leaves the loop and the function at once
simulate(cfg, pt, gs, r, spinCount, options) ==
    LET st == SimLoop(cfg, pt, options, cfg.betAmount, SimStart(gs, r), 0, spinCount)
        restored == [st.gameState EXCEPT
                        !.credits = IF options.preserveCredits THEN gs.credits ELSE @,
                        !.isSpinning = gs.isSpinning]
    IN [outcome |-> IF st.threw THEN "TypeError" ELSE "ok",
        gameState |-> IF st.threw THEN st.gameState ELSE restored,
        rngs |-> st.rngs,
        emitted |-> st.emitted,
        executed |-> st.executed,
        trials |-> st.trials,
        report |-> [totalSpins |-> spinCount, totalWins |-> st.totalWins,
                    totalPaidOut |-> st.totalPaidOut,
                    totalWagered |-> spinCount * cfg.betAmount,
                    largestWin |-> st.largestWin]]


-----------------------------------------------------------------------------
(* The engine: construction *)

NoStrips == <<>>                     \* reelStrips: undefined

\* Configuration.mergeWithDefaults of the user's configuration
Configuration(winningChance, initialCredits, seed, container, paylines, payoutTable, reelStrips) ==
    [winningChance |-> winningChance, betAmount |-> 10,
     initialCredits |-> initialCredits, seed |-> seed, container |-> container,
     paylines |-> paylines, payoutTable |-> payoutTable, reelStrips |-> reelStrips]

Setup(paylines, payoutTable, reelStrips) ==
    [paylines |-> paylines, payoutTable |-> payoutTable, reelStrips |-> reelStrips]

Setups ==
    { Setup(defaultPaylines, TableCherry, StripsFull),
      Setup(defaultPaylines, TableSeven, NoStrips),
      Setup(MiddleFlat, TableCherry, StripsCherryBar),
      Setup(MiddlePairs, TableSeven, StripsSevenCherry) }

WinningChances == {0, 50, 100}
SeedChoices == {1, 14}
CreditChoices == {25}

EngineConfigs ==
    { Configuration(w, c, sd, ct, su.paylines, su.payoutTable, su.reelStrips) :
        w \in WinningChances, c \in CreditChoices, sd \in SeedChoices,
        ct \in BOOLEAN, su \in Setups }

NoParts == [initialized |-> FALSE, ctl |-> NoController, animator |-> FALSE]

Call(op, outcome, activation) ==
    [op |-> op, outcome |-> outcome, id |-> activation.id,
     betAmount |-> activation.betAmount, shouldWin |-> activation.shouldWin]

NoReport == [totalSpins |-> 0, totalWins |-> 0, totalPaidOut |-> 0,
             totalWagered |-> 0, largestWin |-> 0]

\* the second engine after its construction: no simulate() call made yet
Twin(cfg) ==
    [gameState |-> NewGameState(cfg.initialCredits), rngs |-> NewRngs(cfg.seed),
     outcome |-> "none", simulated |-> 0, trials |-> 0, report |-> NoReport]

NoTwin == Twin(Configuration(0, 0, 0, FALSE, MiddleFlat, <<>>, NoStrips))

\* new SlotEngine(userConfig): the state when the constructor returns
Constructed(cfg) ==
    /\ config = cfg
    /\ gameState = NewGameState(cfg.initialCredits)
    /\ rngs = NewRngs(cfg.seed)
    /\ parts = NoParts
    /\ inflight = {}
    /\ reelsStopped = 5
    /\ emitted = <<>>
    /\ lastCall = Call("constructor", "ok", NoActivation)

Init ==
    /\ \E cfg \in EngineConfigs : Constructed(cfg)
    /\ twin = NoTwin
    /\ probe = ProbeIdle

\* what initialize() builds once the assets are loaded; without configured
\* strips ReelStripGenerator draws them with Math.random
Built(cfg, reelStrips) ==
    [initialized |-> TRUE,
     ctl |-> Controller(reelStrips, Evaluator(cfg.paylines, cfg.payoutTable),
                        cfg.payoutTable),
     animator |-> cfg.container]

GeneratedStrips == {StripsFull, StripsNoSeven}

Initialize ==
    /\ ~parts.initialized
    /\ \E reelStrips \in (IF config.reelStrips # NoStrips
                          THEN {config.reelStrips} ELSE GeneratedStrips) :
          parts' = Built(config, reelStrips)
    /\ rngs' = [rngs EXCEPT !.controller = rngs.engine, !.aliased = TRUE]
    /\ emitted' = <<>>
    /\ lastCall' = Call("initialize", "ok", NoActivation)
    /\ UNCHANGED <<config, gameState, inflight, reelsStopped, twin, probe>>

-----------------------------------------------------------------------------
(* The engine: calls and callbacks *)

\* a spin() call; what an event listener does with the events is left open
SpinCall ==
    /\ gameState.totalSpins < MaxSpins
    /\ LET out == spin(config, parts, gameState, rngs) IN
          /\ gameState' = out.gameState
          /\ rngs' = out.rngs
          /\ emitted' = out.emitted
          /\ inflight' = IF out.outcome = "pending"
                         THEN inflight \cup {out.activation} ELSE inflight
          \* animate() puts every reel in state 'accelerating'
          /\ reelsStopped' = IF out.outcome = "pending" THEN 0 ELSE reelsStopped
          /\ lastCall' = Call("spin", out.outcome, out.activation)
    /\ UNCHANGED <<config, parts, probe>>

Spin == SpinCall /\ UNCHANGED twin

\* an animation frame at which the next reel reaches its stop time
ReelStopFrame ==
    /\ inflight # {}
    /\ reelsStopped < 5
    /\ reelsStopped' = reelsStopped + 1
    /\ emitted' = << ReelStopEvent(reelsStopped) >>
    /\ lastCall' = Call("reelStop", "ok", NoActivation)
    /\ UNCHANGED <<config, gameState, rngs, parts, inflight, probe>>

ReelStop == ReelStopFrame /\ UNCHANGED twin

\* an animation loop finds every reel stopped and resolves its promise:
\* executeSpin continues after the await (executeSpinFinish, its two constants
\* bound in turn)
ResumeCall(a) ==
    /\ a \in inflight
    /\ reelsStopped = 5
    /\ \E matrix \in {positionsToMatrix(parts.ctl.reels, a.targetPositions)} :
       \E result \in {evaluate(parts.ctl.evaluator, matrix)} :
       \E out \in {executeSpinPay(gameState, rngs, <<>>, a, matrix, result)} :
          /\ gameState' = out.gameState
          /\ rngs' = out.rngs
          /\ emitted' = out.emitted
          /\ lastCall' = Call("settle", out.outcome, a)
    /\ inflight' = inflight \ {a}
    /\ UNCHANGED <<config, parts, reelsStopped, probe>>

Resume(a) == ResumeCall(a) /\ UNCHANGED twin

Settle == \E a \in inflight : Resume(a)

\* stop() paying the last win once more
stopPaying(gs) == addWinnings([gs EXCEPT !.isSpinning = FALSE], gs.lastWin)

stop(gs) == IF gs.isSpinning THEN [gs EXCEPT !.isSpinning = FALSE] ELSE gs

Stop ==
    /\ gameState' = stop(gameState)
    /\ emitted' = <<>>
    /\ lastCall' = Call("stop", "ok", NoActivation)
    /\ UNCHANGED <<config, rngs, parts, inflight, reelsStopped, twin, probe>>

dispose(gs) == [gs EXCEPT !.isSpinning = FALSE]

Dispose ==
    /\ gameState' = dispose(gameState)
    /\ emitted' = <<>>
    /\ lastCall' = Call("dispose", "ok", NoActivation)
    /\ UNCHANGED <<config, rngs, parts, inflight, reelsStopped, twin, probe>>

Next ==
    \/ Initialize
    \/ Spin
    \/ ReelStop
    \/ Settle
    \/ Stop
    \/ Dispose

Spec == Init /\ [][Next]_vars

\* animation frames keep coming, and a resolved promise's continuation runs
SpecFair == Spec /\ WF_vars(ReelStop) /\ WF_vars(Settle)


-----------------------------------------------------------------------------
(* The evaluator and the reel controller on their own *)

CoreConfig == Configuration(0, 0, 0, FALSE, MiddleFlat, TableSeven, NoStrips)

InitCore ==
    /\ Constructed(CoreConfig)
    /\ twin = NoTwin
    /\ probe = ProbeIdle

NextCore ==
    \/ ProbeEvaluate
    \/ ProbeWinning
    \/ ProbeLosing

SpecCore == InitCore /\ [][NextCore]_vars

\* payout tables whose entries overlap (a line of 3 CHERRY matches both), in
\* either order of their keys
TableCherryReversed == << TableCherry[2], TableCherry[1] >>
OverlapTables == {TableCherry, TableCherryReversed, TableMixed}

ProbeOverlap == ProbeEvaluateOn({defaultPaylines, MiddleFlat}, OverlapTables)

NextOverlap == ProbeOverlap

SpecOverlap == InitCore /\ [][NextOverlap]_vars

-----------------------------------------------------------------------------
(* Two engines with the same configuration, reel strips and seed: one is   *)
(* driven by spin(), the other (twin) by one simulate() call.  Both are    *)
(* made ready by Initialize, and spin() is called on a ready engine.       *)

TwinSetups ==
    { Setup(defaultPaylines, TableCherry, StripsFull),
      Setup(defaultPaylines, TableMixed, StripsFull),
      Setup(MiddleFlat, TableCherry, StripsCherryBar) }

TwinConfigs ==
    { Configuration(w, c, sd, ct, su.paylines, su.payoutTable, su.reelStrips) :
        w \in {50, 100}, c \in CreditChoices, sd \in SeedChoices,
        ct \in BOOLEAN, su \in TwinSetups }

InitTwin ==
    /\ \E cfg \in TwinConfigs : Constructed(cfg) /\ twin = Twin(cfg)
    /\ probe = ProbeIdle

ReadySpin == parts.initialized /\ Spin

\* twin.simulate(spinCount, {silent: true, preserveCredits: false})
TwinSimulate ==
    /\ parts.initialized
    /\ twin.outcome = "none"
    /\ \E spinCount \in 1..MaxSimSpins :
          LET out == simulate(config, parts, twin.gameState, twin.rngs, spinCount,
                              SimulationOptions(TRUE, FALSE))
          IN twin' = [gameState |-> out.gameState, rngs |-> out.rngs,
                      outcome |-> out.outcome, simulated |-> spinCount,
                      trials |-> out.trials, report |-> out.report]
    /\ UNCHANGED <<config, gameState, rngs, parts, inflight, reelsStopped, emitted,
                   lastCall, probe>>

NextTwin ==
    \/ Initialize
    \/ ReadySpin
    \/ ReelStop
    \/ Settle
    \/ TwinSimulate

SpecTwin == InitTwin /\ [][NextTwin]_vars

-----------------------------------------------------------------------------
(* The engine with all its public operations: spin, stop, simulate,        *)
(* increaseBet, decreaseBet, setConfig.                                    *)

\* A number-typed property holds an integer, NaN, or (a key given with no
\* value) undefined.  The last two are written as two integers that no
\* configuration uses as a number; the operators below treat them as
\* JavaScript does: a comparison with NaN or undefined is false, arithmetic on
\* them gives NaN.
NaN == -1000001
Undefined == -1000002

IsFinite(x) == x # NaN /\ x # Undefined
JsLess(x, y) == IsFinite(x) /\ IsFinite(y) /\ x < y          \* x < y
JsLessEq(x, y) == IsFinite(x) /\ IsFinite(y) /\ x <= y       \* x <= y
JsAdd(x, y) == IF IsFinite(x) /\ IsFinite(y) THEN x + y ELSE NaN
JsMax(x, y) == IF IsFinite(x) /\ IsFinite(y) THEN (IF x > y THEN x ELSE y) ELSE NaN
JsMin(x, y) == IF IsFinite(x) /\ IsFinite(y) THEN (IF x < y THEN x ELSE y) ELSE NaN

\* a Partial<SlotConfiguration> with one key
Partial(key, value) == [key |-> key, value |-> value]

\* Validators.validatePartialConfig: does the update pass.  A key whose value
\* is undefined is not validated; typeof NaN is 'number', Number.isInteger(NaN)
\* is false.
\* No other key of the model (initialCredits, paylines, payoutTable) is
\* looked at.
validatePartialConfig(partial) ==
    partial.key \in {"betAmount", "seed", "winningChance"} =>
        \/ partial.value = Undefined
        \/ /\ partial.key = "betAmount" => ~JsLessEq(partial.value, 0)
           /\ partial.key = "seed" => (partial.value # NaN /\ ~JsLess(partial.value, 0))
           /\ partial.key = "winningChance" =>
                  (~JsLess(partial.value, 0) /\ ~JsLess(100, partial.value))

\* Validators.validateConfig, as the constructor calls it on the merged
\* configuration: does it pass (each key is checked unless undefined)
validateConfig(cfg) ==
    /\ cfg.winningChance # Undefined =>
           (~JsLess(cfg.winningChance, 0) /\ ~JsLess(100, cfg.winningChance))
    /\ cfg.betAmount # Undefined => ~JsLessEq(cfg.betAmount, 0)
    /\ cfg.initialCredits # Undefined => ~JsLess(cfg.initialCredits, 0)
    /\ cfg.seed # Undefined => (cfg.seed # NaN /\ ~JsLess(cfg.seed, 0))
    /\ LineCount(cfg.paylines) # 0
    /\ Len(cfg.payoutTable) # 0
    /\ cfg.reelStrips # NoStrips =>
           (Len(cfg.reelStrips) = 5 /\ \A i \in 1..5 : Len(cfg.reelStrips[i]) # 0)

\* Configuration.update: validate, then merge
update(cfg, partial) ==
    IF ~validatePartialConfig(partial) THEN cfg
    ELSE [cfg EXCEPT ![partial.key] = partial.value]

\* setConfig(partialConfig): refused while spinning; a seed replaces this.rng
\* by a new RandomSource, the ReelController keeps the object it was built with
setConfig(cfg, gs, r, partial) ==
    IF gs.isSpinning
    THEN [outcome |-> "StateError", config |-> cfg, rngs |-> r]
    ELSE IF ~validatePartialConfig(partial)
    THEN [outcome |-> "ConfigError", config |-> cfg, rngs |-> r]
    ELSE [outcome |-> "ok", config |-> update(cfg, partial),
          rngs |-> IF partial.key = "seed" /\ partial.value # Undefined
                   THEN [r EXCEPT !.engine = createRNG(partial.value),
                                  !.aliased = FALSE]
                   ELSE r]

\* increaseBet(): 10 more, up to min(credits, 100)
increaseBet(cfg, gs) ==
    LET newBet == JsAdd(cfg.betAmount, 10)
        maxBet == JsMin(gs.credits, 100)
    IN IF JsLessEq(newBet, maxBet) THEN update(cfg, Partial("betAmount", newBet)) ELSE cfg

\* decreaseBet(): 10 less, at least 10
decreaseBet(cfg) ==
    LET newBet == JsMax(10, JsAdd(cfg.betAmount, -10))
    IN update(cfg, Partial("betAmount", newBet))

BetChoices == {0, 20}

\* the updates tried here change the bet; seed updates are run by SpecSeed
PartialChoices == {Partial("betAmount", b) : b \in BetChoices}

\* what a setConfig() call leaves behind: its argument and how it returned
SetConfigCall(outcome, partial) ==
    [op |-> "setConfig", outcome |-> outcome, id |-> 0, betAmount |-> 0,
     shouldWin |-> FALSE, key |-> partial.key, value |-> partial.value]

\* setConfig(partial) with a partial of the set given
SetConfigFrom(partials) ==
    /\ \E partial \in partials :
       \E out \in {setConfig(config, gameState, rngs, partial)} :
          /\ config' = out.config
          /\ rngs' = out.rngs
          /\ lastCall' = SetConfigCall(out.outcome, partial)
    /\ emitted' = <<>>
    /\ UNCHANGED <<gameState, parts, inflight, reelsStopped, twin, probe>>

SetConfig == SetConfigFrom(PartialChoices)

IncreaseBet ==
    /\ config' = increaseBet(config, gameState)
    /\ emitted' = <<>>
    /\ lastCall' = Call("increaseBet", "ok", NoActivation)
    /\ UNCHANGED <<gameState, rngs, parts, inflight, reelsStopped, twin, probe>>

DecreaseBet ==
    /\ config' = decreaseBet(config)
    /\ emitted' = <<>>
    /\ lastCall' = Call("decreaseBet", "ok", NoActivation)
    /\ UNCHANGED <<gameState, rngs, parts, inflight, reelsStopped, twin, probe>>

\* what a simulate() call leaves behind: its options and its report
SimulateCall(outcome, spinCount, options, report) ==
    [op |-> "simulate", outcome |-> outcome, id |-> 0, betAmount |-> 0,
     shouldWin |-> FALSE, spinCount |-> spinCount, silent |-> options.silent,
     preserveCredits |-> options.preserveCredits, report |-> report]

\* simulate(spinCount, options) on the engine, options.silent taken from silents
SimulateWith(silents) ==
    /\ \E spinCount \in 1..MaxSimSpins, silent \in silents, preserveCredits \in BOOLEAN :
          /\ gameState.totalSpins < MaxOpsSpins
          /\ \E options \in {SimulationOptions(silent, preserveCredits)} :
             \E out \in {simulate(config, parts, gameState, rngs, spinCount, options)} :
                /\ gameState' = out.gameState
                /\ rngs' = out.rngs
                /\ emitted' = out.emitted
                /\ lastCall' = SimulateCall(out.outcome, spinCount, options, out.report)
    /\ UNCHANGED <<config, parts, inflight, reelsStopped, twin, probe>>

\* simulate() with the default silent: true
Simulate == SimulateWith({TRUE})

OpsSetups ==
    { Setup(defaultPaylines, TableCherry, StripsFull),
      Setup(MiddlePairs, TableSeven, StripsSevenCherry) }

OpsConfigs ==
    { Configuration(w, c, sd, ct, su.paylines, su.payoutTable, su.reelStrips) :
        w \in {50}, c \in CreditChoices, sd \in {9}, ct \in BOOLEAN,
        su \in OpsSetups }

InitOps ==
    /\ \E cfg \in OpsConfigs : Constructed(cfg)
    /\ twin = NoTwin
    /\ probe = ProbeIdle

OpsSpin == gameState.totalSpins < MaxOpsSpins /\ Spin

NextOps ==
    \/ Initialize
    \/ OpsSpin
    \/ ReelStop
    \/ Settle
    \/ Stop
    \/ Simulate
    \/ IncreaseBet
    \/ DecreaseBet
    \/ SetConfig

SpecOps == InitOps /\ [][NextOps]_vars

-----------------------------------------------------------------------------
(* RNG.ts, class SeededRandom: the Mulberry32 generator on 32-bit words.   *)
(* A word is [hi, lo], its two 16-bit halves; the value next() returns is  *)
(* the word divided by 2^32.                                               *)

Half == 65536
Byte == 256

\* the 32-bit word of an integer n, -2^31 <= n < 2^31 (n >>> 0: a negative n
\* gives 2^32 + n)
Word(n) == [hi |-> (n \div Half) % Half, lo |-> n % Half]

\* 0x6d2b79f5
Increment == [hi |-> 27947, lo |-> 31221]

\* a + b on 32 bits
Add32(a, b) ==
    [hi |-> (a.hi + b.hi + ((a.lo + b.lo) \div Half)) % Half,
     lo |-> (a.lo + b.lo) % Half]

RECURSIVE XorBits(_, _, _)
XorBits(x, y, n) ==
    IF n = 0 THEN 0
    ELSE (((x % 2) + (y % 2)) % 2) + 2 * XorBits(x \div 2, y \div 2, n - 1)

RECURSIVE OrBits(_, _, _)
OrBits(x, y, n) ==
    IF n = 0 THEN 0
    ELSE (IF x % 2 = 1 \/ y % 2 = 1 THEN 1 ELSE 0) + 2 * OrBits(x \div 2, y \div 2, n - 1)

\* a ^ b
Xor32(a, b) == [hi |-> XorBits(a.hi, b.hi, 16), lo |-> XorBits(a.lo, b.lo, 16)]

\* a | c for a constant c below 2^16
Or32(a, c) == [hi |-> a.hi, lo |-> OrBits(a.lo, c, 16)]

\* a >>> n, 0 < n < 16
Shr32(a, n) ==
    [hi |-> a.hi \div Pow(2, n),
     lo |-> (a.lo \div Pow(2, n)) + (a.hi % Pow(2, n)) * Pow(2, 16 - n)]

\* the 4 bytes of a word, lowest first
Bytes(a) == << a.lo % Byte, a.lo \div Byte, a.hi % Byte, a.hi \div Byte >>

\* Math.imul(a, b): the low 32 bits of the product, by columns of byte products
imul(a, b) ==
    LET x == Bytes(a)
        y == Bytes(b)
        c0 == x[1] * y[1]
        c1 == x[1] * y[2] + x[2] * y[1]
        c2 == x[1] * y[3] + x[2] * y[2] + x[3] * y[1]
        c3 == x[1] * y[4] + x[2] * y[3] + x[3] * y[2] + x[4] * y[1]
        k1 == (c0 \div Byte) + c1
        k2 == (k1 \div Byte) + c2
        k3 == (k2 \div Byte) + c3
    IN [hi |-> (k2 % Byte) + Byte * (k3 % Byte),
        lo |-> (c0 % Byte) + Byte * (k1 % Byte)]

\* new SeededRandom(seed): this.seed = seed >>> 0
SeededRandom(seed) == [seed |-> Word(seed)]

\* the value computed from t = (this.seed += 0x6d2b79f5)
Mulberry(t0) ==
    LET t1 == imul(Xor32(t0, Shr32(t0, 15)), Or32(t0, 1))
        t2 == Xor32(t1, Add32(t1, imul(Xor32(t1, Shr32(t1, 7)), Or32(t1, 61))))
    IN Xor32(t2, Shr32(t2, 14))

\* next(): the object after the call and the value returned
next(rng) ==
    LET t == Add32(rng.seed, Increment)
    IN [rng |-> [rng EXCEPT !.seed = t], value |-> Mulberry(t)]

\* the value of the k-th call of next() on a new SeededRandom(seed)
RECURSIVE KthDraw(_, _)
KthDraw(rng, k) == IF k = 1 THEN next(rng).value ELSE KthDraw(next(rng).rng, k - 1)

RngSeeds == {0, 1, 2, 42, 12345, 99999, 65535, 65536, 2147483647}

\* two objects made by new SeededRandom(seed), and the values each returned
TwoSources(seed) ==
    [op |-> "next", seed |-> seed,
     sources |-> << SeededRandom(seed), SeededRandom(seed) >>,
     draws |-> << <<>>, <<>> >>]

\* this.seed as one field of the class, shared by its objects
storeShared(sources, i, rng) == [j \in 1..2 |-> rng]

\* this.seed is a field of the object next() was called on
store(sources, i, rng) == [sources EXCEPT ![i] = rng]

\* one call of next() on object i
Draw(i) ==
    /\ Len(probe.draws[i]) < MaxDraws
    /\ \E out \in {next(probe.sources[i])} :
          probe' = [probe EXCEPT !.sources = store(probe.sources, i, out.rng),
                                 !.draws[i] = Append(@, out.value)]
    /\ UNCHANGED <<config, gameState, rngs, parts, inflight, reelsStopped, emitted,
                   lastCall, twin>>

DrawFirst == Draw(1)
DrawSecond == Draw(2)

InitRng ==
    /\ Constructed(CoreConfig)
    /\ twin = NoTwin
    /\ \E seed \in RngSeeds : probe = TwoSources(seed)

NextRng ==
    \/ DrawFirst
    \/ DrawSecond

SpecRng == InitRng /\ [][NextRng]_vars

-----------------------------------------------------------------------------
(* The seeds a RandomSource can be asked for, and the three ways a seed     *)
(* reaches new SeededRandom(seed): the engine's constructor, setConfig and  *)
(* the factory createRNG.  A seed is an integer, a number with a fraction   *)
(* (trunc is its integer part) or NaN.                                      *)

MaxSeed == 12       \* seeds tried are the numbers from -MaxSeed to MaxSeed

JsSeed(kind, trunc) == [kind |-> kind, trunc |-> trunc]

SeedValues ==
    {JsSeed(kind, n) : kind \in {"integer", "fraction"}, n \in (-MaxSeed)..MaxSeed}
        \cup {JsSeed("NaN", 0)}

\* typeof seed === 'number' && Number.isInteger(seed) && seed >= 0
validSeed(seed) == seed.kind = "integer" /\ seed.trunc >= 0

\* seed >>> 0: NaN gives 0, a fraction is cut off
ToUint32(seed) == IF seed.kind = "NaN" THEN Word(0) ELSE Word(seed.trunc)

NoSource == [seed |-> Word(0)]

\* new SeededRandom(seed): the constructor takes any number
newSeededRandom(seed) == [threw |-> FALSE, rng |-> [seed |-> ToUint32(seed)]]

\* the factory: a seed that is not undefined goes to the constructor
createRNGFrom(seed) == newSeededRandom(seed)

\* new SlotEngine({seed}): validateConfig, then createRNG(config.seed)
constructWithSeed(seed) ==
    IF ~validSeed(seed) THEN [threw |-> TRUE, rng |-> NoSource] ELSE createRNGFrom(seed)

\* setConfig({seed}) on an idle engine: validatePartialConfig, then
\* createRNG(partialConfig.seed)
setConfigSeed(seed) ==
    IF ~validSeed(seed) THEN [threw |-> TRUE, rng |-> NoSource] ELSE createRNGFrom(seed)

Asked(op, seed, made) ==
    [op |-> op, seed |-> seed, threw |-> made.threw, rng |-> made.rng,
     drawn |-> FALSE, value |-> Word(0)]

NotAsked == Asked("idle", JsSeed("integer", 0), [threw |-> FALSE, rng |-> NoSource])

AskFor(op, made) ==
    /\ probe.op = "idle"
    /\ \E seed \in SeedValues : probe' = Asked(op, seed, made[seed])
    /\ UNCHANGED <<config, gameState, rngs, parts, inflight, reelsStopped, emitted,
                   lastCall, twin>>

AskConstructor == AskFor("construct", [seed \in SeedValues |-> constructWithSeed(seed)])
AskSetConfig == AskFor("setConfig", [seed \in SeedValues |-> setConfigSeed(seed)])
AskFactory == AskFor("createRNG", [seed \in SeedValues |-> createRNGFrom(seed)])

\* the first next() on the source that was made
DrawCreated ==
    /\ probe.op # "idle" /\ ~probe.threw /\ ~probe.drawn
    /\ \E out \in {next(probe.rng)} :
          probe' = [probe EXCEPT !.rng = out.rng, !.drawn = TRUE, !.value = out.value]
    /\ UNCHANGED <<config, gameState, rngs, parts, inflight, reelsStopped, emitted,
                   lastCall, twin>>

InitFactory ==
    /\ Constructed(CoreConfig)
    /\ twin = NoTwin
    /\ probe = NotAsked

NextFactory ==
    \/ AskConstructor
    \/ AskSetConfig
    \/ AskFactory
    \/ DrawCreated

SpecFactory == InitFactory /\ [][NextFactory]_vars

-----------------------------------------------------------------------------
(* Two engines given the same calls.  The second engine (peer) is kept in  *)
(* twin: its game state, RNG objects and parts, and the outcome of its     *)
(* last spin().  Both run without a container, so a spin resolves inside   *)
(* the call.                                                               *)

\* new SlotEngine(cfg) whose initialize() has built pt (NoParts: not yet)
Peer(cfg, pt) ==
    [gameState |-> NewGameState(cfg.initialCredits), rngs |-> NewRngs(cfg.seed),
     parts |-> pt, outcome |-> "none"]

NoPeer == Peer(CoreConfig, NoParts)

PairSetups ==
    { Setup(defaultPaylines, TableCherry, StripsFull),
      Setup(defaultPaylines, TableCherry, NoStrips) }

PairConfigs ==
    { Configuration(w, c, sd, FALSE, su.paylines, su.payoutTable, su.reelStrips) :
        w \in WinningChances, c \in CreditChoices, sd \in SeedChoices,
        su \in PairSetups }

InitPair ==
    /\ \E cfg \in PairConfigs : Constructed(cfg) /\ twin = Peer(cfg, NoParts)
    /\ probe = ProbeIdle

\* initialize() of the second engine
PeerInitialize ==
    /\ ~twin.parts.initialized
    /\ \E reelStrips \in (IF config.reelStrips # NoStrips
                          THEN {config.reelStrips} ELSE GeneratedStrips) :
          twin' = [twin EXCEPT !.parts = Built(config, reelStrips)]
    /\ UNCHANGED <<config, gameState, rngs, parts, inflight, reelsStopped, emitted,
                   lastCall, probe>>

\* spin() on both engines, once both are ready
PairSpin ==
    /\ parts.initialized /\ twin.parts.initialized
    /\ gameState.totalSpins < MaxSpins /\ twin.gameState.totalSpins < MaxSpins
    /\ \E out \in {spin(config, parts, gameState, rngs)} :
       \E peer \in {spin(config, twin.parts, twin.gameState, twin.rngs)} :
          /\ gameState' = out.gameState
          /\ rngs' = out.rngs
          /\ emitted' = out.emitted
          /\ lastCall' = Call("spin", out.outcome, out.activation)
          /\ twin' = [twin EXCEPT !.gameState = peer.gameState, !.rngs = peer.rngs,
                                  !.outcome = peer.outcome]
    /\ UNCHANGED <<config, parts, inflight, reelsStopped, probe>>

NextPair ==
    \/ Initialize
    \/ PeerInitialize
    \/ PairSpin

SpecPair == InitPair /\ [][NextPair]_vars

-----------------------------------------------------------------------------
(* setConfig({seed}) on a ready engine, against a new engine built with    *)
(* that seed and the same parts (reel strips, paylines, payout table).     *)
(* From the update on, both engines are given the same spin() calls.       *)

SeedConfigs ==
    { Configuration(w, c, sd, FALSE, su.paylines, su.payoutTable, su.reelStrips) :
        w \in {50, 100}, c \in CreditChoices, sd \in SeedChoices, su \in PairSetups }

InitSeed ==
    /\ \E cfg \in SeedConfigs : Constructed(cfg)
    /\ twin = NoPeer
    /\ probe = ProbeIdle

\* spin() on the engine before its seed is changed
SoloSpin == ~twin.parts.initialized /\ ReadySpin

\* setConfig({seed: s}), and the construction of the new engine with seed s
Reseed ==
    /\ parts.initialized /\ ~twin.parts.initialized
    /\ \E seed \in SeedChoices :
       \E out \in {setConfig(config, gameState, rngs, Partial("seed", seed))} :
          /\ config' = out.config
          /\ rngs' = out.rngs
          /\ twin' = Peer(out.config, parts)
          /\ lastCall' = [Call("setConfig", out.outcome, NoActivation)
                            EXCEPT !.id = seed]
    /\ emitted' = <<>>
    /\ UNCHANGED <<gameState, parts, inflight, reelsStopped, probe>>

NextSeed ==
    \/ Initialize
    \/ SoloSpin
    \/ Reseed
    \/ PairSpin

SpecSeed == InitSeed /\ [][NextSeed]_vars

-----------------------------------------------------------------------------
(* A ready engine with its animation callbacks: spin() is called after     *)
(* ready(), stop() at any time, and the frames and continuations of the    *)
(* spins in flight run in any order.                                       *)

SchedSetups ==
    { Setup(defaultPaylines, TableCherry, StripsFull),
      Setup(MiddleFlat, TableCherry, StripsCherryBar) }

SchedConfigs ==
    { Configuration(w, c, sd, ct, su.paylines, su.payoutTable, su.reelStrips) :
        w \in {50}, c \in CreditChoices, sd \in {1, 9, 14}, ct \in BOOLEAN,
        su \in SchedSetups }

InitSched ==
    /\ \E cfg \in SchedConfigs : Constructed(cfg)
    /\ twin = NoTwin
    /\ probe = ProbeIdle

NextSched ==
    \/ Initialize
    \/ ReadySpin
    \/ ReelStop
    \/ Settle
    \/ Stop

SpecSched == InitSched /\ [][NextSched]_vars

-----------------------------------------------------------------------------
(* A ready engine and a listener registered with on() for spin-start,      *)
(* reel-stop, win and spin-complete.  twin.heard is what the listener was  *)
(* called with, in order: the event's type, its reelIndex, and for the     *)
(* events of executeSpin the spin they belong to.                          *)

Listened(e) == e.type \in {"spin-start", "reel-stop", "win", "spin-complete"}

Heard(log, events, id) ==
    log \o [i \in 1..Len(SelectSeq(events, Listened)) |->
               [type |-> SelectSeq(events, Listened)[i].type,
                reelIndex |-> SelectSeq(events, Listened)[i].reelIndex,
                spin |-> IF SelectSeq(events, Listened)[i].type = "reel-stop"
                         THEN 0 ELSE id]]

Listener == [heard |-> <<>>]

EventConfigs ==
    { Configuration(w, c, sd, ct, defaultPaylines, TableCherry, StripsFull) :
        w \in {50}, c \in CreditChoices, sd \in {1, 9, 14}, ct \in BOOLEAN }

InitEvents ==
    /\ \E cfg \in EventConfigs : Constructed(cfg)
    /\ twin = Listener
    /\ probe = ProbeIdle

ListenSpin ==
    /\ parts.initialized
    /\ SpinCall
    /\ twin' = [twin EXCEPT !.heard = Heard(@, emitted', lastCall'.id)]

ListenReelStop ==
    /\ ReelStopFrame
    /\ twin' = [twin EXCEPT !.heard = Heard(@, emitted', 0)]

ListenSettle ==
    \E a \in inflight :
       /\ ResumeCall(a)
       /\ twin' = [twin EXCEPT !.heard = Heard(@, emitted', a.id)]

NextEvents ==
    \/ Initialize
    \/ ListenSpin
    \/ ListenReelStop
    \/ ListenSettle
    \/ Stop

SpecEvents == InitEvents /\ [][NextEvents]_vars

-----------------------------------------------------------------------------
(* A ready engine whose events are observed: spin() with and without an    *)
(* animation, and simulate() with events silenced or not.                  *)

\* simulate(spinCount, {silent, preserveCredits}) with either value of silent
LoudSimulate == parts.initialized /\ SimulateWith(BOOLEAN)

NotifyConfigs ==
    { Configuration(w, c, sd, ct, defaultPaylines, TableCherry, StripsFull) :
        w \in {50, 100}, c \in CreditChoices, sd \in {1, 9, 14}, ct \in BOOLEAN }

InitNotify ==
    /\ \E cfg \in NotifyConfigs : Constructed(cfg)
    /\ twin = NoTwin
    /\ probe = ProbeIdle

NextNotify ==
    \/ Initialize
    \/ ReadySpin
    \/ ReelStop
    \/ Settle
    \/ LoudSimulate

SpecNotify == InitNotify /\ [][NextNotify]_vars

-----------------------------------------------------------------------------
(* The stored configuration under runtime updates: setConfig with valid    *)
(* and invalid values of betAmount and winningChance, increaseBet and      *)
(* decreaseBet.  No spin is made here.                                     *)

NumberChoices == {-10, 0, 20, 50, 150, NaN, Undefined}

UpdateChoices == {Partial(key, v) : key \in {"betAmount", "winningChance"}, v \in NumberChoices}

UpdateConfigs ==
    { Configuration(w, c, 1, FALSE, defaultPaylines, TableCherry, StripsFull) :
        w \in {0, 100}, c \in {25, 100} }

InitUpdate ==
    /\ \E cfg \in UpdateConfigs : Constructed(cfg)
    /\ twin = NoTwin
    /\ probe = ProbeIdle

UpdateConfig == SetConfigFrom(UpdateChoices)

\* paylines: [] and payoutTable: {}
EmptyPaylines == [form |-> "flat", lines |-> <<>>]
EmptyTable == <<>>

\* updates of initialCredits, paylines and payoutTable, acceptable or not
ShapeChoices ==
    { Partial("initialCredits", -5), Partial("initialCredits", 50),
      Partial("paylines", EmptyPaylines), Partial("paylines", MiddleFlat),
      Partial("payoutTable", EmptyTable), Partial("payoutTable", TableSeven) }

UpdateShape == SetConfigFrom(ShapeChoices)

NextUpdate ==
    \/ UpdateConfig
    \/ UpdateShape
    \/ IncreaseBet
    \/ DecreaseBet

SpecUpdate == InitUpdate /\ [][NextUpdate]_vars

-----------------------------------------------------------------------------
(* getState() and a caller that writes into the snapshot it was given.     *)
(* JavaScript arrays and objects are held by reference: the model numbers  *)
(* the SpinResult objects the engine has stored (0: lastSpinResult is      *)
(* null) and keeps, for the snapshot, the number of the result whose       *)
(* matrix and hitLines arrays its lastSpinResult points to.  twin is the    *)
(* caller: the snapshot it holds and the number of the engine's result.     *)

\* GameState.getSnapshot: the scalars are copied, visibleGrid is copied row by
\* row, lastSpinResult is spread into a new object whose matrix and hitLines
\* are the arrays of the result number `result`
getSnapshot(gs, result) ==
    [state |-> [credits |-> gs.credits, lastWin |-> gs.lastWin,
                isSpinning |-> gs.isSpinning,
                visibleGrid |-> [row \in 1..Len(gs.visibleGrid) |-> gs.visibleGrid[row]],
                lastSpinResult |-> gs.lastSpinResult,
                totalSpins |-> gs.totalSpins, totalWins |-> gs.totalWins,
                totalPaidOut |-> gs.totalPaidOut],
     arrays |-> result]

\* the snapshot's lastSpinResult is null
NoArrays == 0

Holder(results) == [held |-> FALSE, snapshot |-> getSnapshot(NewGameState(0), NoArrays), results |-> results, path |-> ""]

\* the writes a caller makes into a snapshot
Writes == {"credits", "visibleGrid", "win", "matrix", "hitLines"}

\* one write into the value gs
Written(gs, path) ==
    CASE path = "credits" -> [gs EXCEPT !.credits = 0]
      [] path = "visibleGrid" -> [gs EXCEPT !.visibleGrid[1][1] = "X"]
      [] path = "win" -> [gs EXCEPT !.lastSpinResult.win = FALSE]
      [] path = "matrix" -> [gs EXCEPT !.lastSpinResult.matrix[1][1] = "X"]
      [] path = "hitLines" -> [gs EXCEPT !.lastSpinResult.hitLines = <<>>]

\* the write reaches an array the engine's lastSpinResult holds too
ReachesEngine(snapshot, results, path) ==
    /\ path \in {"matrix", "hitLines"}
    /\ snapshot.arrays = results

\* what the write does to the engine's GameState
writeThrough(gs, snapshot, results, path) ==
    IF ReachesEngine(snapshot, results, path) THEN Written(gs, path) ELSE gs

\* spin() on a ready engine without animation; a resolved spin stores a new
\* SpinResult
SnapSpin ==
    /\ parts.initialized
    /\ SpinCall
    /\ twin' = [twin EXCEPT !.results = IF lastCall'.outcome = "resolved"
                                        THEN @ + 1 ELSE @]

\* const state = engine.getState()
GetState ==
    /\ twin' = [twin EXCEPT !.held = TRUE,
                            !.snapshot = getSnapshot(gameState,
                                                     IF twin.results = 0 THEN NoArrays
                                                     ELSE twin.results),
                            !.path = ""]
    /\ emitted' = <<>>
    /\ lastCall' = Call("getState", "ok", NoActivation)
    /\ UNCHANGED <<config, gameState, rngs, parts, inflight, reelsStopped, probe>>

\* the caller writes into the snapshot it holds (a write into lastSpinResult
\* needs one that is not null)
Mutate ==
    /\ twin.held
    /\ \E path \in Writes :
          /\ path \in {"win", "matrix", "hitLines"} => twin.snapshot.arrays # NoArrays
          /\ twin' = [twin EXCEPT !.snapshot.state = Written(@, path), !.path = path]
          /\ gameState' = writeThrough(gameState, twin.snapshot, twin.results, path)
    /\ emitted' = <<>>
    /\ lastCall' = Call("mutate", "ok", NoActivation)
    /\ UNCHANGED <<config, rngs, parts, inflight, reelsStopped, probe>>

SnapshotConfigs ==
    { Configuration(w, c, sd, FALSE, defaultPaylines, TableCherry, StripsFull) :
        w \in {50, 100}, c \in CreditChoices, sd \in {1, 9, 14} }

InitSnapshot ==
    /\ \E cfg \in SnapshotConfigs : Constructed(cfg)
    /\ twin = Holder(0)
    /\ probe = ProbeIdle

NextSnapshot ==
    \/ Initialize
    \/ SnapSpin
    \/ GetState
    \/ Mutate

SpecSnapshot == InitSnapshot /\ [][NextSnapshot]_vars

-----------------------------------------------------------------------------
(* selfTest(): the five checks, each inside its own try/catch *)

SelfTestSpins == 100                 \* simulate(100, ...) of Test 5
tolerance == 20                      \* const tolerance = 20

\* what a check leaves behind: the entries pushed, and whether it threw
Check(threw, failures, warnings) ==
    [threw |-> threw, failures |-> failures, warnings |-> warnings]

PushIf(condition, entry) == IF condition THEN << entry >> ELSE << >>

\* a try block left by an exception that no catch clause takes
Rethrown(check, entry) == check

\* try { ... } catch (error) { failures.push(`... error: ${error.message}`) }
Caught(check, entry) ==
    IF check.threw
    THEN Check(FALSE, Append(check.failures, entry), check.warnings)
    ELSE check

\* Test 1: Configuration validation; symbolSet is the sequence of its keys
ConfigurationValidation(cfg) ==
    Caught(Check(FALSE,
                 PushIf(JsLess(cfg.winningChance, 0) \/ JsLess(100, cfg.winningChance),
                        "Invalid winningChance")
                 \o PushIf(JsLessEq(cfg.betAmount, 0), "Invalid betAmount")
                 \o PushIf(Len(cfg.symbolSet) < 3, "Insufficient symbols"),
                 PushIf(JsLess(cfg.initialCredits, cfg.betAmount),
                        "Initial credits less than bet amount")),
           "Configuration validation error")

\* assetLoader.getAllSymbols().length: preload() stores every symbol of
\* symbolSet or fails initialize()
LoadedSymbols(cfg, pt) == IF pt.initialized THEN Len(cfg.symbolSet) ELSE 0

\* Test 2: Asset loading verification
AssetVerification(cfg, pt) ==
    Caught(Check(FALSE,
                 PushIf(LoadedSymbols(cfg, pt) = 0, "No assets loaded")
                 \o PushIf(LoadedSymbols(cfg, pt) # Len(cfg.symbolSet),
                           "Asset count mismatch"),
                 << >>),
           "Asset verification error")

\* Test 3: two sources of the configured seed, three draws of each compared
RngDeterminism(cfg) ==
    Caught(Check(FALSE,
                 PushIf(\E i \in 0..2 : NextValue(createRNG(cfg.seed), i)
                                          # NextValue(createRNG(cfg.seed), i),
                        "RNG determinism failed"),
                 << >>),
           "RNG determinism test error")

\* Array(5).fill(null).map(() => [firstSymbol, firstSymbol, firstSymbol])
testMatrix(cfg) ==
    [reel \in 1..5 |-> [row \in 1..3 |-> At(cfg.symbolSet, 0)]]

\* the body of Test 4 once this.paylineEvaluator.evaluate has been called
EvaluationChecked(result) ==
    IF result.threw THEN Check(TRUE, << >>, << >>)
    ELSE Check(FALSE,
               PushIf(~result.win \/ result.payout <= 0, "Payline evaluation failed"),
               << >>)

\* Test 4: Payline evaluation test; this.paylineEvaluator is undefined
\* before initialize()
PaylineEvaluation(cfg, pt) ==
    Caught(IF ~pt.initialized THEN Check(TRUE, << >>, << >>)
           ELSE EvaluationChecked(evaluate(pt.ctl.evaluator, testMatrix(cfg))),
           "Payline evaluation test error")

Abs(x) == IF x < 0 THEN -x ELSE x

\* quickSim.winRate and quickSim.rtp of the report, in percent
WinRate(report) == (report.totalWins * 100) \div report.totalSpins
RtpIsZero(report) == ~JsLess(0, report.totalWagered) \/ report.totalPaidOut = 0

\* the body of Test 5 once simulate() has been called
WinRateChecked(cfg, sim) ==
    IF sim.outcome # "ok" THEN Check(TRUE, << >>, << >>)
    ELSE Check(FALSE,
               PushIf(sim.report.totalWins > 0 /\ RtpIsZero(sim.report),
                      "RTP calculation error"),
               PushIf(IsFinite(cfg.winningChance)
                      /\ Abs(WinRate(sim.report) - cfg.winningChance) > tolerance,
                      "Win rate approximation"))

\* Test 5: Win rate approximation
WinRateApproximation(cfg, sim) ==
    Caught(WinRateChecked(cfg, sim), "Win rate approximation test error")

\* the five checks in the order they run
Checks(cfg, pt, sim) ==
    << ConfigurationValidation(cfg), AssetVerification(cfg, pt), RngDeterminism(cfg),
       PaylineEvaluation(cfg, pt), WinRateApproximation(cfg, sim) >>

RECURSIVE Failures(_, _)
Failures(checks, i) ==
    IF i > Len(checks) THEN << >>
    ELSE checks[i].failures
         \o (IF checks[i].threw THEN << >> ELSE Failures(checks, i + 1))

RECURSIVE Warnings(_, _)
Warnings(checks, i) ==
    IF i > Len(checks) THEN << >>
    ELSE checks[i].warnings
         \o (IF checks[i].threw THEN << >> ELSE Warnings(checks, i + 1))

\* the TestResult; an exception leaving a check leaves selfTest() as well
TestResult(checks, sim) ==
    [outcome |-> IF \E i \in 1..Len(checks) : checks[i].threw THEN "TypeError" ELSE "ok",
     passed |-> Len(Failures(checks, 1)) = 0,
     failures |-> Failures(checks, 1),
     warnings |-> Warnings(checks, 1),
     gameState |-> sim.gameState,
     rngs |-> sim.rngs]

\* the checks around the one simulate() call that Test 5 makes
selfTestAround(cfg, pt, sim) == TestResult(Checks(cfg, pt, sim), sim)

\* selfTest(): Test 5 runs simulate() on the engine's own state and source
selfTest(cfg, pt, gs, r) ==
    selfTestAround(cfg, pt, simulate(cfg, pt, gs, r, SelfTestSpins,
                                     SimulationOptions(TRUE, TRUE)))

SelfTestCall(out) ==
    [op |-> "selfTest", outcome |-> out.outcome, id |-> 0, betAmount |-> 0,
     shouldWin |-> FALSE, passed |-> out.passed, failures |-> out.failures,
     warnings |-> out.warnings]

\* a selfTest() call on the engine
SelfTest ==
    /\ gameState.totalSpins < MaxSpins
    /\ \E out \in {selfTest(config, parts, gameState, rngs)} :
          /\ gameState' = out.gameState
          /\ rngs' = out.rngs
          /\ lastCall' = SelfTestCall(out)
    /\ emitted' = << >>
    /\ UNCHANGED <<config, parts, inflight, reelsStopped, twin, probe>>

SymbolSets == { << SEVEN, BAR, CHERRY >>, << CHERRY, SEVEN, BAR >>, << BAR, CHERRY >> }

SelfTestSetups ==
    { Setup(defaultPaylines, TableCherry, StripsFull),
      Setup(MiddleFlat, TableSeven, StripsCherryBar),
      Setup(MiddlePairs, TableSeven, StripsSevenCherry) }

SelfTestConfigs ==
    { [symbolSet |-> ss] @@ Configuration(w, c, sd, FALSE, su.paylines, su.payoutTable, su.reelStrips) :
        w \in {0, 50, 100}, c \in {5, 25}, sd \in {1, 9, 14},
        su \in SelfTestSetups, ss \in SymbolSets }

InitSelfTest ==
    /\ \E cfg \in SelfTestConfigs : Constructed(cfg)
    /\ twin = NoTwin
    /\ probe = ProbeIdle

NextSelfTest ==
    \/ Initialize
    \/ SelfTest

SpecSelfTest == InitSelfTest /\ [][NextSelfTest]_vars

-----------------------------------------------------------------------------
(* selectWeightedPattern on its own, on draws finer than the engine's *)

FineDen == 600       \* the draws of this specification are the multiples of 1/FineDen

TableSevenBar ==
    << Entry(<<SEVEN, SEVEN, SEVEN, SEVEN, SEVEN>>, 20),
       Entry(<<BAR, BAR, BAR, BAR, BAR>>, 5),
       Entry(<<SEVEN, SEVEN, SEVEN, WILD, WILD>>, 10),
       Entry(<<CHERRY, CHERRY, WILD, WILD, WILD>>, 2) >>

\* tables whose weights, times FineDen, stay within 32 bits
SelectTables ==
    {TableSeven, TableCherry, TableCherryReversed, TableShort, TableSevenBar}

Selection(payoutTable, d, selected) ==
    [op |-> "select", payoutTable |-> payoutTable, d |-> d, selected |-> selected]

NoSelection == Selection(<< >>, 0, 0)

\* selectWeightedPattern(Object.entries(payoutTable)) at one draw
SelectPattern ==
    /\ probe.op = "select"
    /\ probe.selected = 0
    /\ \E payoutTable \in SelectTables, d \in 0..(FineDen - 1) :
          probe' = Selection(payoutTable, d,
                             selectWeightedPatternAt(payoutTable, d, FineDen))
    /\ UNCHANGED <<config, gameState, rngs, parts, inflight, reelsStopped, emitted,
                   lastCall, twin>>

InitSelect ==
    /\ Constructed(CoreConfig)
    /\ twin = NoTwin
    /\ probe = NoSelection

NextSelect == SelectPattern

SpecSelect == InitSelect /\ [][NextSelect]_vars

-----------------------------------------------------------------------------
(* Properties *)

\* paylines as the evaluator reads them: every line the flat array of 5 cells
WellFormedPaylines(paylines) ==
    /\ paylines.form = "flat"
    /\ \A i \in 1..Len(paylines.lines) : Len(paylines.lines[i]) = 10

SpinReturned == lastCall.op \in {"spin", "settle"} /\ lastCall.outcome = "resolved"

\* C1: the win flag of a spin's outcome equals its Bernoulli trial (the first
\* draw of the spin is < winningChance).
C1_WinIsBernoulli ==
    SpinReturned => (gameState.lastSpinResult.win <=> lastCall.shouldWin)

\* C2: the positions generateWinningPositions() returns give a grid that
\* evaluate() reports as a win, for every accepted configuration and RNG state.
C2_WinningPositionsWin ==
    (probe.op = "winning" /\ WellFormedPaylines(probe.ctl.evaluator.paylines))
        => (~probe.generated.threw /\ probe.result.win)

\* C3: the positions generateLosingPositions() returns give a grid that
\* evaluate() reports as no win, the fallback after 100 attempts included.
C3_LosingPositionsLose ==
    (probe.op = "losing" /\ WellFormedPaylines(probe.ctl.evaluator.paylines))
        => (~probe.generated.threw /\ ~probe.result.win)

\* what a spin with bet b and outcome r pays, and whether it counts as a win
Paid(r, b) == IF r.win THEN r.payout * b ELSE 0
Won(r) == IF r.win THEN 1 ELSE 0

\* C4: a completed spin with bet b takes b from credits and adds 1 to
\* totalSpins; a win with multiplier m adds m*b to credits and to totalPaidOut
\* and 1 to totalWins, a loss leaves totalWins and totalPaidOut alone.  With an
\* animation the bet is taken by the spin() step and the payout by the step
\* that settles it.
C4_SpinAccounting ==
    [][ LET b == lastCall'.betAmount
            r == gameState'.lastSpinResult
        IN /\ (lastCall'.op = "spin" /\ lastCall'.outcome = "resolved") =>
                  /\ gameState'.credits = gameState.credits - b + Paid(r, b)
                  /\ gameState'.totalSpins = gameState.totalSpins + 1
                  /\ gameState'.totalWins = gameState.totalWins + Won(r)
                  /\ gameState'.totalPaidOut = gameState.totalPaidOut + Paid(r, b)
           /\ (lastCall'.op = "spin" /\ lastCall'.outcome = "pending") =>
                  /\ gameState'.credits = gameState.credits - b
                  /\ gameState'.totalSpins = gameState.totalSpins + 1
                  /\ gameState'.totalWins = gameState.totalWins
                  /\ gameState'.totalPaidOut = gameState.totalPaidOut
           /\ (lastCall'.op = "settle" /\ lastCall'.outcome = "resolved") =>
                  /\ gameState'.credits = gameState.credits + Paid(r, b)
                  /\ gameState'.totalSpins = gameState.totalSpins
                  /\ gameState'.totalWins = gameState.totalWins + Won(r)
                  /\ gameState'.totalPaidOut = gameState.totalPaidOut + Paid(r, b)
      ]_vars

\* a spin that went through the animation has settled as a win
C4_Witness ==
    /\ lastCall.op = "settle" /\ lastCall.outcome = "resolved"
    /\ gameState.lastSpinResult.win
    /\ gameState.totalWins >= 1
    /\ gameState.totalPaidOut = gameState.lastSpinResult.payout * lastCall.betAmount

\* C5: at most one spin is in flight at any time.
C5_OneSpinInFlight == Cardinality(inflight) <= 1

\* C6: spin() while the spinning flag is set fails with a state error, with
\* credits < betAmount it fails with an insufficient-credits error, and a
\* failed call changes nothing: state, RNG position, no event.
C6_RejectedSpin ==
    [][ lastCall'.op = "spin" =>
          /\ gameState.isSpinning => lastCall'.outcome = "StateError"
          /\ (~gameState.isSpinning /\ gameState.credits < config.betAmount)
                => lastCall'.outcome = "InsufficientCredits"
          /\ lastCall'.outcome \in {"StateError", "InsufficientCredits"} =>
                /\ UNCHANGED <<config, gameState, rngs, parts, inflight, reelsStopped>>
                /\ emitted' = <<>>
      ]_vars

\* spin() was refused while an earlier spin is animating
C6_Witness ==
    /\ lastCall.op = "spin" /\ lastCall.outcome = "StateError"
    /\ gameState.isSpinning /\ inflight # {}

\* a spin is suspended in its animation, or the spinning flag is set
Busy == inflight # {} \/ gameState.isSpinning

\* C7: every accepted spin eventually settles and the spinning flag does not
\* stay set: whenever the engine is busy, it eventually has no spin in flight
\* and the flag cleared; and at the step that settles a spin (resolved, or
\* rejected by an internal error) the spinning flag is false.
C7_SpinSettles ==
    /\ Busy ~> ~Busy
    /\ [][ (lastCall'.op \in {"spin", "settle"}
               /\ lastCall'.outcome \in {"resolved", "TypeError"})
              => ~gameState'.isSpinning ]_vars

\* a spin has been rejected by an internal error raised after its animation
C7_Witness ==
    /\ lastCall.op = "settle" /\ lastCall.outcome = "TypeError"
    /\ gameState.totalSpins >= 1
    /\ ~gameState.isSpinning

\* the 5 symbols of a payline, in column order
LineSymbols(matrix, line) ==
    [k \in 1..5 |-> matrix[line[2 * k - 1] + 1][line[2 * k] + 1]]

\* a match: equal length and, at each position, token equality or a wildcard
Matches(symbolIds, pattern) ==
    /\ Len(pattern) = Len(symbolIds)
    /\ \A i \in 1..Len(pattern) : pattern[i] = WILD \/ pattern[i] = symbolIds[i]

MatchingEntries(matrix, line, payoutTable) ==
    {e \in 1..Len(payoutTable) : Matches(LineSymbols(matrix, line), payoutTable[e].pattern)}

AllSeven == [row \in 1..3 |-> <<SEVEN, SEVEN, SEVEN, SEVEN, SEVEN>>]

\* C9: with paylines given as lists of 5 (row, column) pairs evaluate does not
\* throw, and for the all-SEVEN grid, the table {SEVEN x 5: 1000} and the
\* single middle payline it returns win, payout 1000 and one hit line.
C9_PairsForm ==
    (probe.op = "evaluate" /\ probe.ctl.evaluator.paylines.form = "pairs") =>
        /\ ~probe.result.threw
        /\ (probe.ctl.evaluator = Evaluator(MiddlePairs, TableSeven)
               /\ probe.matrix = AllSeven) =>
              /\ probe.result.win
              /\ probe.result.payout = 1000
              /\ Len(probe.result.hitLines) = 1

\* C10: simulate(n, {preserveCredits: false}) on one engine and n completed
\* spin() calls on an engine with the same configuration, strips and seed end
\* with equal credits, totalWins and totalPaidOut.
C10_SimulateMatchesSpins ==
    (/\ twin.outcome = "ok"
     /\ twin.simulated = gameState.totalSpins
     /\ twin.gameState.totalSpins = twin.simulated
     /\ inflight = {}) =>
        /\ twin.gameState.credits = gameState.credits
        /\ twin.gameState.totalWins = gameState.totalWins
        /\ twin.gameState.totalPaidOut = gameState.totalPaidOut

\* C11: the totalWins simulate(n) reports is the number of its iterations
\* whose Bernoulli draw was below winningChance: every successful trial is
\* counted, and no failed one.
C11_SimulateCountsTrials ==
    twin.outcome = "ok" => twin.report.totalWins = twin.trials

\* C12: simulate(n, {preserveCredits: true}) leaves credits and the spinning
\* flag as they were before the call, for every n and every sequence of wins
\* and losses, also when an exception ends the loop.
C12_SimulatePreserves ==
    [][ (lastCall'.op = "simulate" /\ lastCall'.preserveCredits) =>
          /\ gameState'.credits = gameState.credits
          /\ gameState'.isSpinning = gameState.isSpinning ]_vars

\* a preserving simulate() was ended by an exception inside its loop, after
\* the iteration had recorded its spin
C12_Witness ==
    /\ lastCall.op = "simulate" /\ lastCall.preserveCredits
    /\ lastCall.outcome = "TypeError"
    /\ gameState.totalSpins >= 1

\* C18: credits never go below 0, whatever sequence of spin(), simulate()
\* (preserving or not), stop(), increaseBet(), decreaseBet() and setConfig()
\* is made from initialCredits >= 0.
C18_CreditsNonNegative == gameState.credits >= 0

\* a spending simulate() stopped early for lack of credits on an engine whose
\* bet had been changed
C18_Witness ==
    /\ lastCall.op = "simulate" /\ ~lastCall.preserveCredits
    /\ lastCall.outcome = "ok"
    /\ gameState.credits < config.betAmount
    /\ config.betAmount # 10

\* both engines have made the same number of spin() calls, one at least
PairSpun == lastCall.op = "spin" /\ twin.gameState.totalSpins >= 1

\* the last spin of both engines gave the same grid, win flag and payout
SameOutcome ==
    /\ gameState.lastSpinResult.matrix = twin.gameState.lastSpinResult.matrix
    /\ gameState.lastSpinResult.win = twin.gameState.lastSpinResult.win
    /\ gameState.lastSpinResult.payout = twin.gameState.lastSpinResult.payout

\* the last spin() call of both engines ended the same way
SameSpin ==
    /\ lastCall.outcome = twin.outcome
    /\ SameOutcome
    /\ gameState.lastWin = twin.gameState.lastWin

\* C13: two engines constructed with the same seed and the same configuration
\* and given the same sequence of spin() calls return the same grids, win
\* flags and payouts.
C13_SameSeedSameSpins == PairSpun => SameSpin

\* C14: two RandomSources constructed independently with the same seed s return
\* the same value at every call index, whatever the order of the calls on the
\* two objects: the k-th value is the one a new source with seed s gives at
\* its k-th call.
C14_SameSeedSameDraws ==
    \A i \in 1..2 : \A k \in 1..Len(probe.draws[i]) :
        /\ probe.draws[i][k] = KthDraw(SeededRandom(probe.seed), k)
        /\ k <= Len(probe.draws[3 - i]) => probe.draws[i][k] = probe.draws[3 - i][k]

\* both objects have been called MaxDraws times and returned differing values
\* from call to call
C14_Witness ==
    /\ Len(probe.draws[1]) = MaxDraws /\ Len(probe.draws[2]) = MaxDraws
    /\ probe.draws[1][1] # probe.draws[1][2]
    /\ probe.draws[2][2] # probe.draws[2][3]

\* C15: setConfig({seed: s}) keeps credits and counters, and from then on the
\* spins take all their randomness (Bernoulli draw and positions) from a
\* RandomSource newly seeded with s: each spin resolved on the engine and on a
\* new engine built with seed s and the same strips has the same outcome.
C15_SetSeedReseeds ==
    [][ /\ (lastCall'.op = "setConfig" /\ lastCall'.outcome = "ok") =>
              /\ gameState' = gameState
              /\ rngs'.engine = createRNG(config'.seed)
        /\ (lastCall'.op = "spin" /\ lastCall'.outcome = "resolved"
               /\ twin'.outcome = "resolved") => SameOutcome'
      ]_vars

\* the positions of a spin whose Bernoulli trial gave shouldWin, drawn from the
\* controller's source after the trial's draw
DrawnPositions(pt, r1, shouldWin) ==
    IF shouldWin THEN generateWinningPositions(pt.ctl, r1.controller)
    ELSE generateLosingPositions(pt.ctl, r1.controller)

\* the draws of one spin on a ready engine whose sources are r: the Bernoulli
\* draw, then the draws of the positions
DrawsOfSpin(shouldWin, r1, generated) ==
    [shouldWin |-> shouldWin, positions |-> generated.positions,
     rngs |-> AdvanceController(r1, generated.draws)]

SpinDraws(cfg, pt, r, shouldWin) ==
    DrawsOfSpin(shouldWin, AdvanceEngine(r, 1),
                DrawnPositions(pt, AdvanceEngine(r, 1), shouldWin))

\* the draws of the k-th spin of an engine whose spins run one after the
\* other from the sources r
RECURSIVE StartedSpin(_, _, _, _)
StartedSpin(cfg, pt, r, k) ==
    IF k <= 1
    THEN SpinDraws(cfg, pt, r, BernoulliWin(NextValue(r.engine, 0), cfg.winningChance))
    ELSE StartedSpin(cfg, pt,
                     SpinDraws(cfg, pt, r,
                               BernoulliWin(NextValue(r.engine, 0), cfg.winningChance)).rngs,
                     k - 1)

\* C16: a spin draws the Bernoulli value first and then the values of its
\* positions, all inside the spin() call before the animation is awaited; no
\* animation frame, continuation or stop() draws, and the k-th started spin
\* has the trial, positions and draws that the k-th spin of the seed has when
\* spins run one after the other.
C16_DrawsBeforeSuspension ==
    [][ /\ lastCall'.op # "spin" => rngs' = rngs
        /\ (lastCall'.op = "spin" /\ lastCall'.outcome \in {"pending", "resolved"}) =>
              \E ref \in {StartedSpin(config, parts, NewRngs(config.seed),
                                      gameState'.totalSpins)} :
                 /\ lastCall'.shouldWin = ref.shouldWin
                 /\ rngs' = ref.rngs
                 /\ lastCall'.outcome = "pending" =>
                       \E a \in inflight' :
                          a.id = lastCall'.id /\ a.targetPositions = ref.positions
                 /\ lastCall'.outcome = "resolved" =>
                       gameState'.lastSpinResult.matrix
                          = positionsToMatrix(parts.ctl.reels, ref.positions)
      ]_vars

\* the second spin was started, after a stop(), while the first was still in
\* its animation
C16_Witness ==
    /\ lastCall.op = "spin" /\ lastCall.outcome = "pending"
    /\ lastCall.id = 2
    /\ Cardinality(inflight) = 2
    /\ rngs # NewRngs(config.seed)

\* C17: stop() during a spin in flight does not run or derive the outcome
\* again: it draws nothing and touches neither the spins in flight nor the
\* credits, and the spin resolves with the grid, win and payout of the stop
\* positions computed before stop(), its payout credited once (at the step
\* that resolves it, which takes the spin out of flight).
C17_StopKeepsOutcome ==
    [][ /\ lastCall'.op = "stop" =>
              /\ rngs' = rngs
              /\ inflight' = inflight
              /\ reelsStopped' = reelsStopped
              /\ gameState' = [gameState EXCEPT !.isSpinning = FALSE]
        /\ (lastCall'.op = "settle" /\ lastCall'.outcome = "resolved") =>
              \E a \in inflight :
                 /\ a.id = lastCall'.id
                 /\ inflight' = inflight \ {a}
                 /\ \E result \in {evaluate(parts.ctl.evaluator,
                                             positionsToMatrix(parts.ctl.reels,
                                                               a.targetPositions))} :
                       /\ gameState'.lastSpinResult = result
                       /\ gameState'.credits = gameState.credits + Paid(result, a.betAmount)
                       /\ gameState'.totalWins = gameState.totalWins + Won(result)
                       /\ gameState'.totalPaidOut
                             = gameState.totalPaidOut + Paid(result, a.betAmount)
      ]_vars

\* the first spin, stopped during its animation (a second spin was accepted
\* and is still in flight), has resolved as a win
C17_Witness ==
    /\ lastCall.op = "settle" /\ lastCall.outcome = "resolved"
    /\ lastCall.id = 1
    /\ gameState.totalSpins = 2
    /\ Cardinality(inflight) = 1
    /\ gameState.lastSpinResult.win

\* C19: spin() takes the bet before the Bernoulli draw and before the
\* animation starts: a spin suspended in its animation, and one whose position
\* generation threw after the draw, has the bet deducted already; and its
\* first two notifications are spin-start and credits-changed (reason bet),
\* both carrying the balance after the deduction.
C19_BetBeforeDraw ==
    [][ (lastCall'.op = "spin"
           /\ lastCall'.outcome \in {"pending", "resolved", "TypeError"}) =>
          LET b == lastCall'.betAmount
              after == gameState.credits - b
          IN /\ b = config.betAmount
             /\ Len(emitted') >= 2
             /\ emitted'[1] = Event("spin-start", 0, after, b, "", 0)
             /\ emitted'[2] = Event("credits-changed", gameState.credits, after,
                                     -b, "bet", 0)
             /\ lastCall'.outcome \in {"pending", "TypeError"} =>
                   gameState'.credits = after
      ]_vars

\* a spin is suspended in its animation, its bet taken and notified
C19_Witness ==
    /\ lastCall.op = "spin" /\ lastCall.outcome = "pending"
    /\ Len(emitted) = 2
    /\ emitted[1].type = "spin-start"
    /\ emitted[1].newBalance = gameState.credits
    /\ gameState.credits = 15

IsReelStop(e) == e.type = "reel-stop"

\* the reel indices of the reel-stop events heard strictly between s and c
ReelStopsBetween(log, s, c) ==
    [i \in 1..Len(SelectSeq(SubSeq(log, s + 1, c - 1), IsReelStop)) |->
        SelectSeq(SubSeq(log, s + 1, c - 1), IsReelStop)[i].reelIndex]

\* C20: on an engine with an animation, for every completed spin the listener
\* hears spin-start, then reel-stop once for each of the 5 reels in ascending
\* index, then spin-complete, with the spin's win (if any) before its
\* spin-complete; and every reel-stop is heard after the spin-start and before
\* the spin-complete of some spin.
C20_EventOrder ==
    parts.animator =>
      /\ \A c \in 1..Len(twin.heard) :
            twin.heard[c].type = "spin-complete" =>
               \E s \in 1..(c - 1) :
                  /\ twin.heard[s].type = "spin-start"
                  /\ twin.heard[s].spin = twin.heard[c].spin
                  /\ ReelStopsBetween(twin.heard, s, c) = <<0, 1, 2, 3, 4>>
                  /\ \A w \in 1..Len(twin.heard) :
                        (twin.heard[w].type = "win"
                            /\ twin.heard[w].spin = twin.heard[c].spin) => (s < w /\ w < c)
      /\ \A r \in 1..Len(twin.heard) :
            twin.heard[r].type = "reel-stop" =>
               \E s \in 1..(r - 1) :
                  /\ twin.heard[s].type = "spin-start"
                  /\ \A c \in (s + 1)..(r - 1) :
                        ~(twin.heard[c].type = "spin-complete"
                             /\ twin.heard[c].spin = twin.heard[s].spin)

IsCreditsChanged(e) == e.type = "credits-changed"

\* the credits-changed events describe, one after the other, the way of the
\* balance from `from` to `to`: each is a change, and each starts where the
\* one before ended
DescribesBalance(events, from, to) ==
    LET changes == SelectSeq(events, IsCreditsChanged) IN
    /\ \A i \in 1..Len(changes) :
          /\ changes[i].change # 0
          /\ changes[i].newBalance = changes[i].oldBalance + changes[i].change
          /\ changes[i].oldBalance = IF i = 1 THEN from ELSE changes[i - 1].newBalance
    /\ to = IF changes = <<>> THEN from ELSE changes[Len(changes)].newBalance

\* C21: every change of the credit balance made by spin() (bet and payout) and
\* by simulate() with silent: false and preserveCredits: false comes with one
\* credits-changed event whose oldBalance, newBalance and change describe it:
\* the credits-changed events of a step lead from the balance before the step
\* to the balance after it.
C21_CreditsChangedOnMutation ==
    [][ (\/ lastCall'.op \in {"spin", "settle"}
         \/ (lastCall'.op = "simulate" /\ ~lastCall'.silent
                 /\ ~lastCall'.preserveCredits))
           => DescribesBalance(emitted', gameState.credits, gameState'.credits) ]_vars

\* the number of wildcard tokens of a pattern
Wildcards(pattern) == Cardinality({i \in 1..Len(pattern) : pattern[i] = WILD})

\* C22: when several entries of the payout table match the 5 symbols of a
\* payline, the one hit line evaluate reports for it carries the most specific
\* of them (fewest wildcards), whatever the order of the entries in the table.
C22_MostSpecificWins ==
    (probe.op = "evaluate" /\ WellFormedPaylines(probe.ctl.evaluator.paylines)) =>
        \A h \in 1..Len(probe.result.hitLines) :
            LET hit == probe.result.hitLines[h]
                line == probe.ctl.evaluator.paylines.lines[hit.paylineIndex + 1]
                payoutTable == probe.ctl.evaluator.payoutTable
            IN /\ \A g \in 1..Len(probe.result.hitLines) :
                     probe.result.hitLines[g].paylineIndex = hit.paylineIndex => g = h
               /\ \A e \in MatchingEntries(probe.matrix, line, payoutTable) :
                     Wildcards(hit.pattern) <= Wildcards(payoutTable[e].pattern)

\* C23: no write into a snapshot returned by getState() (its scalar fields,
\* its visibleGrid, the matrix and hitLines inside its lastSpinResult) changes
\* the engine's state, and so none changes what a later getState() returns.
C23_SnapshotIsDeepCopy ==
    [][ lastCall'.op = "mutate" =>
          /\ gameState' = gameState
          /\ getSnapshot(gameState', twin'.results).state
                = getSnapshot(gameState, twin.results).state ]_vars

\* 0 <= winningChance <= 1 (100 percent) and betAmount > 0
ValidatedConfig(cfg) ==
    /\ JsLessEq(0, cfg.winningChance) /\ JsLessEq(cfg.winningChance, 100)
    /\ JsLess(0, cfg.betAmount)

\* C24: after construction and after any sequence of setConfig(),
\* increaseBet() and decreaseBet() calls, accepted or rejected, the stored
\* configuration has 0 <= winningChance <= 1 and betAmount > 0; and an update
\* rejected by validation leaves the configuration unchanged.
C24_ConfigStaysValid ==
    /\ []ValidatedConfig(config)
    /\ [][lastCall'.outcome = "ConfigError" => config' = config]_vars

\* the configuration a constructor would be given with the update's value
WithUpdate(cfg, key, value) == [cfg EXCEPT ![key] = value]

\* C25: setConfig with a value of initialCredits, paylines or payoutTable
\* that construction rejects (negative credits, an empty payline list, an
\* empty payout table) is rejected with a configuration error, and the
\* configuration is left as it was.
C25_UpdateRejectsAsConstruction ==
    [][ (/\ lastCall'.op = "setConfig"
         /\ lastCall'.key \in {"initialCredits", "paylines", "payoutTable"}
         /\ ~validateConfig(WithUpdate(config, lastCall'.key, lastCall'.value)))
           => (lastCall'.outcome = "ConfigError" /\ config' = config) ]_vars

\* a spin() has started and has not resolved yet
SpinUnresolved == inflight # {}

\* C26: a configuration update requested while a spin() has started and not
\* yet resolved is rejected and not queued: setConfig() fails with a state
\* error, and after setConfig(), increaseBet() or decreaseBet() the
\* configuration (the bet amount with it) and the RandomSource are what they
\* were before the call.
C26_UpdateWhileSpinningRejected ==
    [][ (SpinUnresolved /\ lastCall'.op \in {"setConfig", "increaseBet", "decreaseBet"}) =>
          /\ lastCall'.op = "setConfig" => lastCall'.outcome = "StateError"
          /\ config' = config
          /\ rngs' = rngs ]_vars

\* C27: no RandomSource is made from a seed that is not a non-negative
\* integer (negative, with a fraction, NaN), whether the seed comes through
\* the engine's constructor, through setConfig or through the factory: the
\* call fails.
C27_BadSeedFails ==
    (probe.op \in {"construct", "setConfig", "createRNG"} /\ ~validSeed(probe.seed))
        => probe.threw

\* C28: simulate() returns its report whatever happens inside an iteration:
\* an exception raised by position generation or evaluation (the engine not
\* initialized yet, for one) does not leave the call.
C28_SimulateCapturesErrors ==
    lastCall.op = "simulate" => lastCall.outcome = "ok"

\* the entries of a list of failures or warnings
Entries(list) == {list[i] : i \in 1..Len(list)}

\* the 5 cells of a payline read in a matrix that may lack them: a missing
\* cell reads as undefined
CellsRead(matrix, line) ==
    [k \in 1..5 |-> At(At(matrix, line[2 * k - 1]), line[2 * k])]

\* the test matrix of selfTest() (5 rows of 3 cells) matches no entry on
\* any payline
TestMatrixLoses(cfg, ev) ==
    \A i \in 1..Len(ev.paylines.lines) :
        \A e \in 1..Len(ev.payoutTable) :
            ~Matches(CellsRead(testMatrix(cfg), ev.paylines.lines[i]),
                     ev.payoutTable[e].pattern)

\* what a selfTest() call made in this state has to report
Reported(failures, warnings) ==
    /\ Len(config.symbolSet) < 3 => "Insufficient symbols" \in failures
    /\ config.initialCredits < config.betAmount =>
           "Initial credits less than bet amount" \in warnings
    /\ ~parts.initialized =>
           /\ "No assets loaded" \in failures
           /\ "Payline evaluation test error" \in failures
           /\ "Win rate approximation test error" \in failures
    /\ (parts.initialized /\ ~WellFormedPaylines(config.paylines)) =>
           /\ "Payline evaluation test error" \in failures
           /\ "Win rate approximation test error" \in failures
    /\ (parts.initialized /\ WellFormedPaylines(config.paylines)
          /\ TestMatrixLoses(config, parts.ctl.evaluator)) =>
           "Payline evaluation failed" \in failures
    /\ (parts.initialized /\ WellFormedPaylines(config.paylines)
          /\ Abs(WinRate(simulate(config, parts, gameState, rngs, SelfTestSpins,
                                  SimulationOptions(TRUE, TRUE)).report)
                 - config.winningChance) > tolerance) =>
           "Win rate approximation" \in warnings

\* C29: selfTest() never throws; passed is true exactly when failures is
\* empty; every check that fails, an exception raised inside a check
\* included (evaluator and controller missing before initialize(), paylines
\* the evaluator cannot read), has its entry in failures or warnings.
C29_SelfTestCaptures ==
    [][lastCall'.op = "selfTest" =>
          /\ lastCall'.outcome = "ok"
          /\ lastCall'.passed <=> lastCall'.failures = << >>
          /\ Reported(Entries(lastCall'.failures), Entries(lastCall'.warnings))]_vars

\* a selfTest() on an engine whose evaluator throws: both exceptions are entries
C29_Witness ==
    /\ lastCall.op = "selfTest"
    /\ lastCall.outcome = "ok"
    /\ parts.initialized
    /\ ~lastCall.passed
    /\ "Payline evaluation test error" \in Entries(lastCall.failures)
    /\ "Win rate approximation test error" \in Entries(lastCall.failures)

\* 5 positions, each an index into its reel's strip
ValidPositions(reels, positions) ==
    /\ Len(positions) = 5
    /\ \A reel \in 1..5 : positions[reel] \in 0..(Len(reels[reel]) - 1)

\* C30: generateWinningPositions() and generateLosingPositions(), its
\* fallback included, return exactly 5 integers p_0..p_4 with
\* 0 <= p_i < length of reel i's strip, for every state of the RandomSource
\* and every set of reel strips; with paylines in the flat form the
\* evaluator reads, they always return.
C30_PositionsInRange ==
    probe.op \in {"winning", "losing"} =>
        /\ ~probe.generated.threw =>
               ValidPositions(probe.ctl.reels, probe.generated.positions)
        /\ probe.ctl.evaluator.paylines.form = "flat" => ~probe.generated.threw

\* generateLosingPositions() has returned the positions of its fallback, on
\* strips of more than one symbol
C30_Witness ==
    /\ probe.op = "losing"
    /\ ~probe.generated.threw
    /\ probe.generated.draws = 5 * maxAttempts
    /\ Len(probe.generated.positions) = 5
    /\ Len(probe.ctl.reels[1]) > 1

\* attempt number a (0-based) of the search draws a winning grid
AttemptWins(ctl, rng, a) ==
    evaluate(ctl.evaluator,
             positionsToMatrix(ctl.reels, AttemptPositions(ctl.reels, rng, a))).win

\* the search returned at attempt a: 5 draws for each attempt made, attempts
\* 0..a-1 won, attempt a did not, and its positions are the result
ReturnedAttempt(ctl, rng, generated, a) ==
    /\ generated.draws = 5 * (a + 1)
    /\ generated.positions = AttemptPositions(ctl.reels, rng, a)
    /\ ~AttemptWins(ctl, rng, a)
    /\ \A b \in 0..(a - 1) : AttemptWins(ctl, rng, b)

\* the search was exhausted: every attempt won, the result is the fallback
ReturnedFallback(ctl, rng, generated) ==
    /\ generated.draws = 5 * maxAttempts
    /\ generated.positions = forceLosingPositions(ctl.reels)
    /\ \A b \in 0..(maxAttempts - 1) : AttemptWins(ctl, rng, b)

\* C31: generateLosingPositions() returns without throwing, after at most
\* 100 attempts of 5 draws each (one per reel, in reel order): the positions
\* of the first attempt whose grid is not a win, or the fallback positions
\* once all 100 attempts have won.
C31_LosingSearchBounded ==
    probe.op = "losing" =>
        /\ ~probe.generated.threw
        /\ \/ \E a \in 0..(maxAttempts - 1) :
                 ReturnedAttempt(probe.ctl, probe.rng, probe.generated, a)
           \/ ReturnedFallback(probe.ctl, probe.rng, probe.generated)

\* the symbols the five reels show on the middle row at these positions
MiddleRow(reels, positions) ==
    [reel \in 1..5 |->
        At(reels[reel], (positions[reel] + 1) % Len(reels[reel]))]

AllMatching(symbols) == \A i \in 1..Len(symbols) : symbols[i] = symbols[1]

\* some choice of positions shows two different symbols on the middle row
StripsAllowVariety(reels) ==
    \E r \in 1..5, s \in 1..5 :
        \E i \in 1..Len(reels[r]), j \in 1..Len(reels[s]) : reels[r][i] # reels[s][j]

\* C32: once all 100 attempts have won, generateLosingPositions() returns
\* the fallback positions without a further draw, and on them the
\* middle-row symbols of the five reels are not all the same symbol,
\* whenever the strips hold two different symbols.
C32_FallbackForcesVariety ==
    (/\ probe.op = "losing"
     /\ ~probe.generated.threw
     /\ \A b \in 0..(maxAttempts - 1) : AttemptWins(probe.ctl, probe.rng, b)) =>
        /\ probe.generated.draws = 5 * maxAttempts
        /\ StripsAllowVariety(probe.ctl.reels) =>
              ~AllMatching(MiddleRow(probe.ctl.reels, probe.generated.positions))

\* grid[row][col] = strip_col[(p_col + row) mod length_col], rows 0..2, cols 0..4
GridOf(reels, positions) ==
    [row \in 1..3 |->
        [col \in 1..5 |->
            reels[col][((positions[col] + (row - 1)) % Len(reels[col])) + 1]]]

\* C33: the grid built from stop positions is the same on every path: the
\* controller's positionsToMatrix (spin() and the losing search), the
\* engine's positionsToMatrix (simulate()) and the symbols of each reel
\* reported at its stop all give grid[row][col] = strip_col[(p_col + row) mod
\* length_col].
C33_OneGridMapping ==
    (probe.op \in {"winning", "losing"} /\ ~probe.generated.threw) =>
        LET reels == probe.ctl.reels
            positions == probe.generated.positions
        IN /\ positionsToMatrix(reels, positions) = GridOf(reels, positions)
           /\ \A col \in 1..5 :
                 getVisibleSymbols(reels[col], positions[col])
                     = [row \in 1..3 |-> GridOf(reels, positions)[row][col]]
           /\ enginePositionsToMatrix(reels, positions) = GridOf(reels, positions)

\* w_1 + ... + w_i for the weights w = K / multiplier, times the product of
\* the multipliers (a whole number), K = 1000
RECURSIVE WeightUpTo(_, _)
WeightUpTo(payoutTable, i) ==
    IF i = 0 THEN 0
    ELSE WeightUpTo(payoutTable, i - 1)
         + (1000 * Product([j \in 1..Len(payoutTable) |-> payoutTable[j].multiplier]))
               \div payoutTable[i].multiplier

\* the cumulative weight of entries 1..i reaches r = u * (sum of all weights)
Reaches(payoutTable, i, d) ==
    d * WeightUpTo(payoutTable, Len(payoutTable)) <= FineDen * WeightUpTo(payoutTable, i)

\* the draws of the specification that select entry i
DrawsSelecting(payoutTable, i) ==
    {d \in 0..(FineDen - 1) : selectWeightedPatternAt(payoutTable, d, FineDen) = i}

\* C34: the entry selected at the draw u is the first one whose cumulative
\* weight w_1 + ... + w_i (w = K / multiplier, in table order) reaches
\* r = u * (sum of the weights); every entry is selected at some draw, and
\* of two entries the one with the smaller multiplier is selected at more
\* draws.
C34_WeightedSelection ==
    (probe.op = "select" /\ probe.selected # 0) =>
        /\ probe.selected \in 1..Len(probe.payoutTable)
        /\ Reaches(probe.payoutTable, probe.selected, probe.d)
        /\ \A i \in 1..(probe.selected - 1) : ~Reaches(probe.payoutTable, i, probe.d)
        /\ probe.d = 0 =>
              \A i \in 1..Len(probe.payoutTable) :
                 /\ DrawsSelecting(probe.payoutTable, i) # {}
                 /\ \A j \in 1..Len(probe.payoutTable) :
                       probe.payoutTable[i].multiplier < probe.payoutTable[j].multiplier
                       => Cardinality(DrawsSelecting(probe.payoutTable, i))
                              > Cardinality(DrawsSelecting(probe.payoutTable, j))

\* the walk has passed two entries and selected the third of a table of four
C34_Witness ==
    /\ probe.op = "select"
    /\ probe.payoutTable = TableSevenBar
    /\ probe.selected = 3
    /\ probe.d > 0

\* C35: after a completed spin lastWin is the amount that spin won:
\* payout x betAmount when it won, 0 when it lost, whatever earlier spins won.
C35_LastWinIsLastSpin ==
    SpinReturned =>
        gameState.lastWin = Paid(gameState.lastSpinResult, lastCall.betAmount)

\* C36: the report of a simulate() call gives as totalSpins the number of
\* spins the call executed (the spins it recorded) and as totalWagered that
\* number x betAmount, also when the loop stopped early for want of credits.
C36_ReportCountsExecuted ==
    [][(lastCall'.op = "simulate" /\ lastCall'.outcome = "ok") =>
          /\ lastCall'.report.totalSpins = gameState'.totalSpins - gameState.totalSpins
          /\ lastCall'.report.totalWagered
                 = (gameState'.totalSpins - gameState.totalSpins) * config.betAmount]_vars

\* C37: with spin() calls alone at the fixed bet b, overlapping spins after
\* stop() included, credits = initialCredits - b x totalSpins + totalPaidOut
\* and totalWins <= totalSpins in every state.
C37_CreditsBalance ==
    /\ gameState.credits = config.initialCredits
                               - config.betAmount * gameState.totalSpins
                               + gameState.totalPaidOut
    /\ gameState.totalWins <= gameState.totalSpins

\* one spin has paid out and two more, started one over the other, are in flight
C37_Witness ==
    /\ gameState.totalSpins = 3
    /\ gameState.totalWins >= 1
    /\ gameState.totalPaidOut > 0
    /\ Cardinality(inflight) = 2

\* C38: a simulate(n, {preserveCredits: true}) call changes nothing of the
\* game state but totalSpins: credits, lastWin, totalWins, totalPaidOut, the
\* grid, the last outcome and the spinning flag stay; a call that returns
\* has added n to totalSpins and leaves the RandomSource where n spins
\* would have left it, so that later spins continue the seed's sequence.
C38_PreservingSimulateFrame ==
    [][(lastCall'.op = "simulate" /\ lastCall'.preserveCredits) =>
          /\ gameState' = [gameState EXCEPT !.totalSpins = gameState'.totalSpins]
          /\ gameState'.totalSpins >= gameState.totalSpins
          /\ rngs'.engine.seed = rngs.engine.seed
          /\ rngs'.controller.seed = rngs.controller.seed
          /\ lastCall'.outcome = "ok" =>
                /\ gameState'.totalSpins = gameState.totalSpins + lastCall'.spinCount
                /\ rngs' = StartedSpin(config, parts, rngs, lastCall'.spinCount).rngs
      ]_vars

\* a preserving simulate(2) has returned on an engine whose last spin won
C38_Witness ==
    /\ lastCall.op = "simulate" /\ lastCall.preserveCredits
    /\ lastCall.outcome = "ok"
    /\ lastCall.spinCount = 2
    /\ gameState.lastWin > 0
    /\ gameState.totalSpins = 3

\* C39: a spin() that fails with an internal error after taking the bet (no
\* reel controller before initialize() has finished, or an evaluator that
\* throws) is not rolled back: the bet stays deducted, the spin stays
\* recorded, isSpinning is false again and the caller gets the error.
C39_FailedSpinKeepsBet ==
    [][ /\ (/\ lastCall'.op = "spin" /\ lastCall' # lastCall
            /\ ~parts.initialized
            /\ ~gameState.isSpinning /\ gameState.credits >= config.betAmount) =>
               lastCall'.outcome = "TypeError"
        /\ (lastCall'.op = "spin" /\ lastCall'.outcome = "TypeError") =>
              /\ gameState'.credits = gameState.credits - config.betAmount
              /\ gameState'.totalSpins = gameState.totalSpins + 1
              /\ ~gameState'.isSpinning
              /\ gameState'.totalWins = gameState.totalWins
              /\ gameState'.totalPaidOut = gameState.totalPaidOut
      ]_vars

\* spin() called before initialize() has thrown: the bet is gone
C39_Witness ==
    /\ lastCall.op = "spin" /\ lastCall.outcome = "TypeError"
    /\ ~parts.initialized
    /\ gameState.totalSpins = 1
    /\ gameState.credits = config.initialCredits - config.betAmount
    /\ ~gameState.isSpinning

=============================================================================
